---- MODULE Spec2Model ----
(***************************************************************************)
(* ShadowSettle backend: the Task Observer (waitForTask), the Settlement   *)
(* Executor (POST /settlement/execute), the Job Ledger (POST /jobs,        *)
(* PATCH /jobs/by-task/:taskId), the Treasury Cache                        *)
(* (GET /settlement/treasury-balance), the Result Fetcher                  *)
(* (fetchTaskResult) and the Order Assembler with the run-and-wait         *)
(* pipeline (runSettlementTask, runSettlementAndWait, POST                 *)
(* /settlement/run, POST /settlement/wait/:taskId), the job listings       *)
(* (GET /jobs, listAllJobs), the amount conversion (parseUnits and         *)
(* formatUsdc) and the Faucet (POST /faucet), modelled from the JavaScript *)
(* sources.                                                                *)
(*                                                                         *)
(* Independent state machines share this module.  Each has its own         *)
(* specification (SpecWait / FairSpecWait, SpecExec, SpecJobs /            *)
(* SpecJobFields / SpecPatchOrder / SpecList, SpecTreasury, SpecFetch,     *)
(* SpecPipe, SpecConv, SpecFaucet); the variables of the other machines    *)
(* stay at their initial values.                                           *)
(***************************************************************************)
EXTENDS Integers, Sequences, FiniteSets, Bags, TLC

VARIABLES
    \* ---- waitForTask (iexec-client.js) ----
    wNow,          \* wall clock, in ms
    wPc,           \* "idle" before the call, "called" after the Promise executor ran
    timer,         \* the setTimeout handle: "none", "pending", "cleared", "fired"
    timerDue,      \* time at which the pending timer becomes due
    obs,           \* the obsTask promise: "none", "requested", "fulfilled", "rejected"
    sub,           \* the subscription: "none", "active", "errored", "completed"
    outcome,       \* the promise returned by waitForTask
    settledAt,     \* time at which outcome left "pending" (-1 before)
    settleCalls,   \* number of resolve()/reject() invocations so far
    nextCount,     \* number of next notifications delivered
    lateCallbacks, \* observer callbacks invoked after the timer callback ran
    \* ---- POST /settlement/execute (routes/settlement.js) ----
    execConfigured,     \* getExecuteConfig() returns a config
    executorAuthorized, \* the configured key is the contract's executor
    settledAtts,        \* contract: attestations already consumed
    chainLog,           \* chain: number of successful settleBatch txs per attestation
    pendingTx,          \* handlers suspended between settleBatch() and tx.wait()
    lastExec,           \* the latest request answered, with its response
    \* ---- jobs table (db.js, routes/jobs.js) ----
    dbConfigured,  \* isDbConfigured()
    jobs,          \* rows of table jobs
    nextRowId,     \* gen_random_uuid(): next fresh row id
    dbNow,         \* NOW() of the next statement
    lastJobOp,     \* the latest request answered, with its response
    \* ---- GET /settlement/treasury-balance (routes/settlement.js, db.js) ----
    treasuryConfigured, \* ARBITRUM_SEPOLIA_RPC_URL and SETTLEMENT_CONTRACT_ADDRESS are set
    chainBalance,       \* chain: token.balanceOf(settlement contract), raw units
    treasuryRows,       \* rows of table treasury_balance
    treasuryReads,      \* handlers suspended before the chain read or before the write
    treasuryCount,      \* requests received so far
    lastRead,           \* the latest request answered, with its response
    lastPlain,          \* the latest non-refresh read answered 200, and what followed it
    \* ---- fetchTaskResult (iexec-client.js), GET /settlement/result/:taskId ----
    fetched,            \* the latest call: its inputs and what it returned or threw
    \* ---- runSettlementTask, runSettlementAndWait (iexec-client.js),
    \*      POST /settlement/run, POST /settlement/wait/:taskId ----
    pipePc,     \* the await at which the request in progress is suspended
    pipeReq,    \* the request in progress, or the latest one answered
    pipeCalls,  \* the calls made for it, in order, each with how it ended
    pipeIds,    \* the (dealId, taskId) it works with
    pipeOut,    \* its response
    matched,    \* compute network: the (dealId, taskId) of the deals matched so far
    pipeCount,  \* requests received so far
    \* ---- amounts: parseUnits in postExecute, formatUsdc (routes/settlement.js) ----
    conv,       \* the latest amount converted to raw units and formatted back
    \* ---- GET /jobs, listAllJobs (routes/jobs.js, db.js) ----
    listed,     \* the latest listing: its input and what it returned
    \* ---- POST /faucet (routes/faucet.js) ----
    faucetConfigured,   \* getFaucetConfig() returns a config
    faucetNow,          \* Date.now(), in ms
    addressLastRequest, \* the Map of the module: key -> time of the last accepted request
    mintCalls,          \* every contract.mint call made: its key, its recipient, its time
    pendingMints,       \* handlers suspended in contract.mint / tx.wait
    lastFaucet,         \* the latest request answered, with its response
    faucetCount         \* requests received so far

waitVars == <<wNow, wPc, timer, timerDue, obs, sub, outcome, settledAt,
              settleCalls, nextCount, lateCallbacks>>
execVars == <<execConfigured, executorAuthorized, settledAtts, chainLog,
              pendingTx, lastExec>>
jobVars  == <<dbConfigured, jobs, nextRowId, dbNow, lastJobOp>>
treasuryVars == <<treasuryConfigured, chainBalance, treasuryRows, treasuryReads,
                  treasuryCount, lastRead, lastPlain>>
fetchVars == <<fetched>>
pipeVars == <<pipePc, pipeReq, pipeCalls, pipeIds, pipeOut, matched, pipeCount>>
faucetVars == <<faucetConfigured, faucetNow, addressLastRequest, mintCalls,
                pendingMints, lastFaucet, faucetCount>>
moreVars == <<conv, listed, faucetVars>>
restVars == <<treasuryVars, fetchVars, pipeVars, moreVars>>
vars     == <<waitVars, execVars, jobVars, restVars>>

Null  == "NULL"       \* JS null / SQL NULL
Undef == "UNDEFINED"  \* JS undefined: the field is absent from the body

Min(a, b) == IF a <= b THEN a ELSE b

(***************************************************************************)
(* Task Observer: waitForTask                                              *)
(***************************************************************************)

TASK_OBSERVATION_TIMEOUT_MS == 10 * 60 * 1000

\* Clock granularity and horizon of the model.
TickMs   == 60 * 1000
MaxTicks == 12
MaxNext  == 2

Settled == {"resolved", "rejTimeout", "rejStream", "rejObs"}

WaitInit ==
    /\ wNow = 0
    /\ wPc = "idle"
    /\ timer = "none"
    /\ timerDue = -1
    /\ obs = "none"
    /\ sub = "none"
    /\ outcome = "idle"
    /\ settledAt = -1
    /\ settleCalls = 0
    /\ nextCount = 0
    /\ lateCallbacks = 0

\* Promise semantics: the first resolve()/reject() decides, later ones are no-ops.
Settle(o) ==
    /\ outcome' = IF outcome = "pending" THEN o ELSE outcome
    /\ settledAt' = IF outcome = "pending" THEN wNow ELSE settledAt
    /\ settleCalls' = settleCalls + 1

\* clearTimeout(timeout): cancels a pending timer, no effect otherwise.
ClearTimeoutVal == IF timer = "pending" THEN "cleared" ELSE timer

\* A late observer callback is one invoked after the timer callback ran.
LateBump == IF timer = "fired" THEN lateCallbacks + 1 ELSE lateCallbacks

\* The Promise executor without the setTimeout call.
WaitCallNoTimer ==
    /\ wPc = "idle"
    /\ wNow + TASK_OBSERVATION_TIMEOUT_MS <= MaxTicks * TickMs
    /\ wPc' = "called"
    /\ timer' = "none"
    /\ timerDue' = -1
    /\ obs' = "requested"
    /\ outcome' = "pending"
    /\ UNCHANGED <<wNow, sub, settledAt, settleCalls, nextCount, lateCallbacks>>
    /\ UNCHANGED <<execVars, jobVars, restVars>>

\* The Promise executor: setTimeout(..., T) and the obsTask() call.
WaitCall ==
    /\ wPc = "idle"
    /\ wNow + TASK_OBSERVATION_TIMEOUT_MS <= MaxTicks * TickMs
    /\ wPc' = "called"
    /\ timer' = "pending"
    /\ timerDue' = wNow + TASK_OBSERVATION_TIMEOUT_MS
    /\ obs' = "requested"
    /\ outcome' = "pending"
    /\ UNCHANGED <<wNow, sub, settledAt, settleCalls, nextCount, lateCallbacks>>
    /\ UNCHANGED <<execVars, jobVars, restVars>>

\* obsTask() fulfils: the then-callback subscribes, whatever the promise state.
ObsFulfil ==
    /\ obs = "requested"
    /\ obs' = "fulfilled"
    /\ sub' = "active"
    /\ UNCHANGED <<wNow, wPc, timer, timerDue, outcome, settledAt, settleCalls,
                   nextCount, lateCallbacks>>
    /\ UNCHANGED <<execVars, jobVars, restVars>>

\* obsTask() rejects (or subscribe throws): .catch(reject), no clearTimeout.
ObsReject ==
    /\ obs = "requested"
    /\ obs' = "rejected"
    /\ Settle("rejObs")
    /\ UNCHANGED <<wNow, wPc, timer, timerDue, sub, nextCount, lateCallbacks>>
    /\ UNCHANGED <<execVars, jobVars, restVars>>

\* next: () => {}
StreamNext ==
    /\ sub = "active"
    /\ nextCount < MaxNext
    /\ nextCount' = nextCount + 1
    /\ lateCallbacks' = LateBump
    /\ UNCHANGED <<wNow, wPc, timer, timerDue, obs, sub, outcome, settledAt,
                   settleCalls>>
    /\ UNCHANGED <<execVars, jobVars, restVars>>

\* error: (e) => { clearTimeout(timeout); reject(e); }
StreamError ==
    /\ sub = "active"
    /\ sub' = "errored"
    /\ timer' = ClearTimeoutVal
    /\ Settle("rejStream")
    /\ lateCallbacks' = LateBump
    /\ UNCHANGED <<wNow, wPc, timerDue, obs, nextCount>>
    /\ UNCHANGED <<execVars, jobVars, restVars>>

\* complete: () => { clearTimeout(timeout); resolve(); }
StreamComplete ==
    /\ sub = "active"
    /\ sub' = "completed"
    /\ timer' = ClearTimeoutVal
    /\ Settle("resolved")
    /\ lateCallbacks' = LateBump
    /\ UNCHANGED <<wNow, wPc, timerDue, obs, nextCount>>
    /\ UNCHANGED <<execVars, jobVars, restVars>>

\* The timer callback: reject(new Error("Task observation timeout")).
\* The subscription is left as it is: subscribe()'s return value is dropped.
TimerFire ==
    /\ timer = "pending"
    /\ wNow >= timerDue
    /\ timer' = "fired"
    /\ Settle("rejTimeout")
    /\ UNCHANGED <<wNow, wPc, timerDue, obs, sub, nextCount, lateCallbacks>>
    /\ UNCHANGED <<execVars, jobVars, restVars>>

WaitTick ==
    /\ wNow < MaxTicks * TickMs
    /\ wNow' = wNow + TickMs
    /\ UNCHANGED <<wPc, timer, timerDue, obs, sub, outcome, settledAt,
                   settleCalls, nextCount, lateCallbacks>>
    /\ UNCHANGED <<execVars, jobVars, restVars>>

NextWait ==
    \/ WaitCall
    \/ ObsFulfil
    \/ ObsReject
    \/ StreamNext
    \/ StreamError
    \/ StreamComplete
    \/ TimerFire
    \/ WaitTick


\* ---- claims about waitForTask ----

\* C1 (as claimed): when the stream neither completes nor errors, the wait rejects
\* with the timeout error no earlier than the deadline, and once the timer has
\* fired the subscription is released and no observer callback runs any more.
C1_TimeoutReleasesSubscription ==
    (timer = "fired" /\ obs \in {"requested", "fulfilled"}
        /\ sub \notin {"errored", "completed"})
    => /\ outcome = "rejTimeout"
       /\ settledAt >= timerDue
       /\ sub # "active"
       /\ lateCallbacks = 0

\* C2 (as claimed): once one of stream completion, stream error and the deadline
\* timer has decided the outcome, the other paths are cancelled, so resolve/reject
\* has been invoked exactly once.
C2_ExactlyOneOutcomeFires ==
    (obs = "fulfilled" /\ outcome \in Settled)
    => /\ timer # "pending"
       /\ sub # "active"
       /\ settleCalls = 1

\* C3 (as claimed): a wait settled by completion, by a stream error or by a failure
\* of obsTask has no pending timer, and a wait settled by the timer has no active
\* subscription.
C3_NoLeakOnAnyTerminalPath ==
    /\ outcome \in {"resolved", "rejStream", "rejObs"} => timer # "pending"
    /\ outcome = "rejTimeout" => sub # "active"

\* C4: with the timer callback run fairly, every call of waitForTask eventually
\* settles, also when the stream stays silent forever; and it resolves only if the
\* stream signalled completion while the deadline timer had not fired.
C4_BoundedWait ==
    /\ (wPc = "called") ~> (outcome \in Settled)
    /\ [](outcome = "resolved" => (sub = "completed" /\ timer = "cleared"))

\* C4 witness: a stream that delivered nothing, and the wait settled by the timer.
C4_Witness ==
    /\ outcome = "rejTimeout"
    /\ sub = "active"
    /\ nextCount = 0
    /\ settledAt >= TASK_OBSERVATION_TIMEOUT_MS

(***************************************************************************)
(* Settlement Executor: POST /settlement/execute                           *)
(***************************************************************************)

USDC_DECIMALS == 6

\* How many handlers may be suspended in tx.wait() at once.
MaxInflight == 2

\* JS values that may be a string, null or undefined; strings are sequences
\* of one-character strings so that slice/startsWith/toLowerCase are computed.
Str(s) == [t |-> "str", v |-> s]
NullV  == [t |-> "null", v |-> <<>>]
UndefV == [t |-> "undef", v |-> <<>>]
ObjV   == [t |-> "obj", v |-> <<>>]

Rep(c, n) == [i \in 1..n |-> c]

HexLower == {"0", "1", "2", "3", "4", "5", "6", "7", "8", "9",
             "a", "b", "c", "d", "e", "f"}
HexUpper == {"A", "B", "C", "D", "E", "F"}

ToLowerChar(c) ==
    CASE c = "A" -> "a" [] c = "B" -> "b" [] c = "C" -> "c"
      [] c = "D" -> "d" [] c = "E" -> "e" [] c = "F" -> "f"
      [] OTHER -> c

ToUpperChar(c) ==
    CASE c = "a" -> "A" [] c = "b" -> "B" [] c = "c" -> "C"
      [] c = "d" -> "D" [] c = "e" -> "E" [] c = "f" -> "F"
      [] OTHER -> c

\* String.prototype.toLowerCase
ToLowerCase(s) == [i \in 1..Len(s) |-> ToLowerChar(s[i])]

ToUpperHex(s) == [i \in 1..Len(s) |-> IF i <= 2 THEN s[i] ELSE ToUpperChar(s[i])]

\* s.slice(0, n)
Slice0(s, n) == SubSeq(s, 1, Min(n, Len(s)))

\* s.startsWith("0x")
StartsWith0x(s) == Len(s) >= 2 /\ s[1] = "0" /\ s[2] = "x"

\* String.prototype.trim, for blanks
RECURSIVE TrimLeft(_)
TrimLeft(s) == IF Len(s) > 0 /\ Head(s) = " " THEN TrimLeft(Tail(s)) ELSE s

RECURSIVE TrimRight(_)
TrimRight(s) ==
    IF Len(s) > 0 /\ s[Len(s)] = " " THEN TrimRight(SubSeq(s, 1, Len(s) - 1)) ELSE s

Trim(s) == TrimRight(TrimLeft(s))

HexVal(c) ==
    CASE c = "0" -> 0 [] c = "1" -> 1 [] c = "2" -> 2 [] c = "3" -> 3
      [] c = "4" -> 4 [] c = "5" -> 5 [] c = "6" -> 6 [] c = "7" -> 7
      [] c = "8" -> 8 [] c = "9" -> 9 [] c = "a" -> 10 [] c = "b" -> 11
      [] c = "c" -> 12 [] c = "d" -> 13 [] c = "e" -> 14 [] c = "f" -> 15
      [] OTHER -> 0

\* The custom-error selectors of the Settlement contract, as decoded below.
SEL_INSUFFICIENT == <<"0", "x", "f", "4", "d", "6", "7", "8", "b", "8">>
SEL_SETTLED      == <<"0", "x", "1", "7", "e", "e", "2", "7", "9", "c">>
SEL_EXECUTOR     == <<"0", "x", "7", "f", "b", "6", "b", "e", "0", "2">>
\* Error(string), the selector of a plain require/revert string: not in the table.
SEL_ERROR_STRING == <<"0", "x", "0", "8", "c", "3", "7", "9", "a", "0">>

MSG_INSUFFICIENT ==
    "Insufficient balance in settlement contract. Deposit USDC to the treasury first (Profile -> Deposit USDC)."
MSG_SETTLED ==
    "This settlement was already executed on-chain. Each attestation can only be used once. Open a different job or run a new confidential settlement."
MSG_EXECUTOR ==
    "Only the configured executor can call settle. Check SETTLEMENT_EXECUTOR_PRIVATE_KEY matches the contract executor."
MSG_DEFAULT == "Settlement execute failed"

KindMessages == {MSG_INSUFFICIENT, MSG_SETTLED, MSG_EXECUTOR}

\* a ?? b
Coalesce(a, b) == IF a.t \in {"null", "undef"} THEN b ELSE a

\* a ?? b on plain strings (Null / Undef are the absent values)
CoalesceS(a, b) == IF a \in {Null, Undef} THEN b ELSE a

\* decodeSettlementRevert comparing the whole revert data, not its first 4 bytes.
decodeSettlementRevertWholeData(err) ==
    LET data == Coalesce(err.data, err.infoData)
    IN  IF data.t # "str" \/ ~StartsWith0x(data.v) THEN Null
        ELSE LET selector == data.v
             IN  IF selector = SEL_INSUFFICIENT THEN MSG_INSUFFICIENT
                 ELSE IF selector = SEL_SETTLED THEN MSG_SETTLED
                 ELSE IF selector = SEL_EXECUTOR THEN MSG_EXECUTOR
                 ELSE Null

\* decodeSettlementRevert(err): the message of a known custom error, or null.
decodeSettlementRevert(err) ==
    LET data == Coalesce(err.data, err.infoData)
    IN  IF data.t # "str" \/ ~StartsWith0x(data.v) THEN Null
        ELSE LET selector == ToLowerCase(Slice0(data.v, 10))
             IN  IF selector = SEL_INSUFFICIENT THEN MSG_INSUFFICIENT
                 ELSE IF selector = SEL_SETTLED THEN MSG_SETTLED
                 ELSE IF selector = SEL_EXECUTOR THEN MSG_EXECUTOR
                 ELSE Null

\* The catch block of postExecute:
\* decodeSettlementRevert(err) ?? err.reason ?? err.shortMessage ?? err.message ?? default
CatchMessage(err) ==
    CoalesceS(decodeSettlementRevert(err),
      CoalesceS(err.reason,
        CoalesceS(err.shortMessage,
          CoalesceS(err.message, MSG_DEFAULT))))

\* new Error(msg)
PlainError(msg) ==
    [data |-> UndefV, infoData |-> UndefV, reason |-> Undef,
     shortMessage |-> Undef, message |-> msg]


\* ---- request bodies ----

Arr(items) == [arr |-> TRUE, items |-> items]
NotArr     == [arr |-> FALSE, items |-> <<>>]

\* amounts as JS values: a finite number, a numeric string, NaN, Infinity
Num(n)    == [t |-> "num", v |-> n]
NumStr(n) == [t |-> "numstr", v |-> n]
NaN       == [t |-> "nan", v |-> 0]
Infinity  == [t |-> "inf", v |-> 0]

\* Number(a)
NumberOf(a) == IF a.t = "numstr" THEN Num(a.v) ELSE a

\* Number.isFinite(n)
IsFinite(n) == n.t = "num"

ADDR_A     == <<"0", "x">> \o Rep("a", 40)
ADDR_MIXED == <<"0", "x">> \o Rep("A", 20) \o Rep("b", 20)
ADDR_PAD   == <<" ">> \o ADDR_MIXED \o <<" ">>
ADDR_SHORT == <<"0", "x">> \o Rep("a", 39)
ADDR_NOHEX == <<"0", "x">> \o Rep("a", 39) \o <<"g">>

\* /^0x[0-9a-fA-F]{40}$/.test(s)
IsAddress(s) ==
    /\ Len(s) = 42
    /\ StartsWith0x(s)
    /\ \A i \in 3..42 : s[i] \in HexLower \cup HexUpper

\* ethers.getAddress(s.toLowerCase()): the canonical form of the address,
\* a function of its lower-cased digits.
GetAddress(s) == [checksumOf |-> ToLowerCase(s)]

ATT_EMPTY == <<"0", "x">>
ATT_0a    == <<"0", "x", "0", "a">>
ATT_0A    == <<"0", "x", "0", "A">>
ATT_ODD   == <<"0", "x", "1">>
ATT_NOHEX == <<"0", "x", "z", "z">>
ATT_BARE  == <<"0", "1">>

\* ethers.getBytes(s) accepts /^0x([0-9a-f][0-9a-f])*$/i and throws otherwise
IsBytesLike(s) ==
    /\ StartsWith0x(s)
    /\ Len(s) % 2 = 0
    /\ \A i \in 3..Len(s) : s[i] \in HexLower \cup HexUpper

GetBytes(s) ==
    [i \in 1..((Len(s) - 2) \div 2) |->
        16 * HexVal(ToLowerChar(s[2 * i + 1])) + HexVal(ToLowerChar(s[2 * i + 2]))]

\* ethers.parseUnits(String(n), USDC_DECIMALS) for an integral n
ParseUnits(n) == n.v * (10 ^ USDC_DECIMALS)

BadRecipients == {NotArr, Arr(<<>>), Arr(<<ADDR_SHORT>>), Arr(<<ADDR_A, ADDR_NOHEX>>)}
BadAmounts    == {NotArr, Arr(<<Num(-1)>>), Arr(<<Num(5), NaN>>), Arr(<<Infinity>>)}
GoodAtts      == {Str(ATT_0a), Str(ATT_0A), Str(ATT_EMPTY)}
BadAtts       == {UndefV, ObjV, Str(<<>>), Str(ATT_BARE), Str(ATT_ODD), Str(ATT_NOHEX)}

\* The request bodies the model submits: well-formed ones, one whose arrays
\* differ in length, and bodies with exactly one malformed field.
ExecBodies ==
    [recipients : {Arr(<<ADDR_A>>)}, amounts : {Arr(<<Num(5)>>)},
     attestation : GoodAtts]
    \cup [recipients : {Arr(<<ADDR_PAD, ADDR_A>>)},
          amounts : {Arr(<<Num(0), NumStr(7)>>), Arr(<<Num(5)>>)},
          attestation : {Str(ATT_0a)}]
    \cup [recipients : BadRecipients, amounts : {Arr(<<Num(5)>>)},
          attestation : {Str(ATT_0a)}]
    \cup [recipients : {Arr(<<ADDR_A>>)}, amounts : BadAmounts,
          attestation : {Str(ATT_0a)}]
    \cup [recipients : {Arr(<<ADDR_A>>)}, amounts : {Arr(<<Num(5)>>)},
          attestation : BadAtts]
    \cup [recipients : {Arr(<<>>)}, amounts : {Arr(<<>>)},
          attestation : {Str(ATT_0a), UndefV}]

NoBody == [recipients |-> NotArr, amounts |-> NotArr, attestation |-> UndefV]

\* Attestation byte strings the contract may see.
AttBytes == {GetBytes(a.v) : a \in GoodAtts}

\* ---- errors the contract call can raise ----

NoErr == PlainError(Undef)

\* A revert of settleBatch with custom error sel found while the call is
\* simulated (estimateGas): the revert data comes in err.data (any hex case, with
\* or without arguments), or only in err.info.error.data.
RevertErrors(sel) ==
    [data : {Str(sel), Str(ToUpperHex(sel)), Str(sel \o Rep("0", 8))},
     infoData : {UndefV}, reason : {Null},
     shortMessage : {"execution reverted (unknown custom error)"},
     message : {"execution reverted (unknown custom error) (action=estimateGas)"}]
    \cup
    [data : {NullV, UndefV}, infoData : {Str(sel)}, reason : {Null},
     shortMessage : {"execution reverted"}, message : {"execution reverted (rpc)"}]

\* A revert found when the transaction is mined: tx.wait() throws on a receipt
\* with status 0, and that error carries no revert data, whatever the custom error.
MinedRevertError ==
    [data |-> NullV, infoData |-> UndefV, reason |-> Null,
     shortMessage |-> "transaction execution reverted",
     message |-> "transaction execution reverted (action=sendTransaction)"]

\* Any other rejection or RPC failure.
OtherErrors ==
    [data : {Str(SEL_ERROR_STRING \o Rep("0", 8))}, infoData : {UndefV},
     reason : {"ERC20: transfer failed"}, shortMessage : {"execution reverted"},
     message : {"execution reverted: ERC20: transfer failed"}]
    \cup
    [data : {UndefV, Str(ATT_EMPTY), Str(Slice0(SEL_SETTLED, 8)),
             Str(Tail(Tail(SEL_SETTLED)))},
     infoData : {UndefV}, reason : {Undef}, shortMessage : {Undef},
     message : {"connect ECONNREFUSED"}]
    \cup
    [data : {UndefV}, infoData : {UndefV}, reason : {Null},
     shortMessage : {"could not coalesce error"},
     message : {"could not coalesce error (code=UNKNOWN_ERROR)"}]
    \cup
    {[data |-> UndefV, infoData |-> UndefV, reason |-> Undef,
      shortMessage |-> Undef, message |-> Undef]}

\* Has the error delivered the revert data of custom error sel to the handler?
CarriesSelector(err, sel) ==
    LET data == Coalesce(err.data, err.infoData)
    IN  /\ data.t = "str"
        /\ Len(data.v) >= 10
        /\ ToLowerCase(SubSeq(data.v, 1, 10)) = sel


\* ---- the Settlement contract (external; one execution per attestation) ----

SelectorOf(verdict) ==
    CASE verdict = "insufficient" -> SEL_INSUFFICIENT
      [] verdict = "settled"      -> SEL_SETTLED
      [] verdict = "executor"     -> SEL_EXECUTOR

\* settleBatch as the contract decides it: only the executor may call, an
\* attestation is consumed once, and the treasury must cover the payouts.
SettleBatchVerdict(att, funded) ==
    IF ~executorAuthorized THEN "executor"
    ELSE IF att \in settledAtts THEN "settled"
    ELSE IF ~funded THEN "insufficient"
    ELSE "ok"

\* ---- the handler ----

ExecInit ==
    /\ execConfigured \in BOOLEAN
    /\ executorAuthorized \in BOOLEAN
    /\ settledAtts = {}
    /\ chainLog = [a \in AttBytes |-> 0]
    /\ pendingTx = EmptyBag
    /\ lastExec = [via |-> "none", stage |-> "none", status |-> 0, message |-> Undef,
                   body |-> NoBody, err |-> NoErr, verdict |-> "none",
                   reused |-> FALSE]

\* Does the body carry the bytes of an attestation the contract already consumed?
ReusesAttestation(body) ==
    /\ body.attestation.t = "str"
    /\ IsBytesLike(body.attestation.v)
    /\ GetBytes(body.attestation.v) \in settledAtts

Respond(via, stage, status, message, body, err, verdict, reused) ==
    lastExec' = [via |-> via, stage |-> stage, status |-> status,
                 message |-> message, body |-> body, err |-> err,
                 verdict |-> verdict, reused |-> reused]

\* catch (err) { ...; res.status(500).json({ error: String(message) }) }
Catch(stage, body, err, verdict, reused) ==
    Respond("catch", stage, 500, CatchMessage(err), body, err, verdict, reused)

RecipientOk(addr) == IsAddress(Trim(addr))

AmountOk(a) == IsFinite(NumberOf(a)) /\ NumberOf(a).v >= 0

\* recipients.map / amounts.map throw at the first element that fails its test.
MapThrows(items, stage) ==
    \E i \in 1..Len(items) :
        IF stage = "address" THEN ~RecipientOk(items[i]) ELSE ~AmountOk(items[i])

\* The transaction settleBatch(recipientsChecksummed, amountsWei, attestationBytes).
TxOf(body) ==
    [recipients |-> [i \in 1..Len(body.recipients.items) |->
                        GetAddress(Trim(body.recipients.items[i]))],
     amounts |-> [i \in 1..Len(body.amounts.items) |->
                        ParseUnits(NumberOf(body.amounts.items[i]))],
     attestation |-> GetBytes(body.attestation.v)]

\* The first test with the length comparison left out.
ArraysMismatchNoLength(r, a) == ~r.arr \/ ~a.arr

\* !Array.isArray(recipients) || !Array.isArray(amounts) ||
\* recipients.length !== amounts.length
ArraysMismatch(r, a) == ~r.arr \/ ~a.arr \/ Len(r.items) # Len(a.items)

\* postExecute up to and including `await contract.settleBatch(...)`: the
\* synchronous validation, then the call, which the node simulates against the
\* current contract state before the transaction is sent.
PostExecute(body) ==
    LET reused == ReusesAttestation(body)
        r == body.recipients
        a == body.amounts
        att == body.attestation
    IN
    IF ~execConfigured THEN
        /\ Respond("config", "config", 503, "On-chain settlement not configured.",
                   body, NoErr, "none", reused)
        /\ UNCHANGED <<settledAtts, chainLog, pendingTx>>
    ELSE IF ArraysMismatch(r, a) THEN
        /\ Respond("validation", "arrays", 400,
                   "Invalid body: need recipients and amounts arrays of the same length",
                   body, NoErr, "none", reused)
        /\ UNCHANGED <<settledAtts, chainLog, pendingTx>>
    ELSE IF att.t # "str" \/ att.v = <<>> \/ ~StartsWith0x(att.v) THEN
        /\ Respond("validation", "attestation", 400,
                   "Invalid attestation: must be 0x-prefixed hex string",
                   body, NoErr, "none", reused)
        /\ UNCHANGED <<settledAtts, chainLog, pendingTx>>
    ELSE IF Len(r.items) = 0 THEN
        /\ Respond("validation", "empty", 400, "At least one recipient required",
                   body, NoErr, "none", reused)
        /\ UNCHANGED <<settledAtts, chainLog, pendingTx>>
    ELSE IF MapThrows(r.items, "address") THEN
        /\ Catch("address", body, PlainError("Invalid address"), "none", reused)
        /\ UNCHANGED <<settledAtts, chainLog, pendingTx>>
    ELSE IF MapThrows(a.items, "amount") THEN
        /\ Catch("amount", body, PlainError("Invalid amount"), "none", reused)
        /\ UNCHANGED <<settledAtts, chainLog, pendingTx>>
    ELSE IF ~IsBytesLike(att.v) THEN
        /\ Catch("bytes", body, PlainError("invalid BytesLike value"), "none", reused)
        /\ UNCHANGED <<settledAtts, chainLog, pendingTx>>
    ELSE
        \/ \E err \in OtherErrors :
              /\ Catch("submit", body, err, "rpc", reused)
              /\ UNCHANGED <<settledAtts, chainLog, pendingTx>>
        \/ \E funded \in BOOLEAN :
              LET verdict == SettleBatchVerdict(TxOf(body).attestation, funded)
              IN  IF verdict = "ok"
                  THEN /\ BagCardinality(pendingTx) < MaxInflight
                       /\ pendingTx' = pendingTx (+) SetToBag({TxOf(body)})
                       /\ UNCHANGED <<settledAtts, chainLog, lastExec>>
                  ELSE /\ \E err \in RevertErrors(SelectorOf(verdict)) :
                              Catch("submit", body, err, verdict, reused)
                       /\ UNCHANGED <<settledAtts, chainLog, pendingTx>>

ExecSubmit ==
    /\ \E body \in ExecBodies : PostExecute(body)
    /\ UNCHANGED <<execConfigured, executorAuthorized>>
    /\ UNCHANGED <<waitVars, jobVars, restVars>>

\* `await tx.wait()`: the transaction is mined, the contract runs it against the
\* state of that moment, and the handler answers from the receipt.
ExecMined ==
    /\ \E tx \in BagToSet(pendingTx) : \E funded \in BOOLEAN :
          LET verdict == SettleBatchVerdict(tx.attestation, funded)
              body == NoBody
              reused == tx.attestation \in settledAtts
          IN  /\ pendingTx' = pendingTx (-) SetToBag({tx})
              /\ IF verdict = "ok"
                 THEN /\ settledAtts' = settledAtts \cup {tx.attestation}
                      /\ chainLog' = [chainLog EXCEPT ![tx.attestation] = @ + 1]
                      /\ Respond("ok", "wait", 200, "txHash", body, NoErr, "ok", reused)
                 ELSE /\ Catch("wait", body, MinedRevertError, verdict, reused)
                      /\ UNCHANGED <<settledAtts, chainLog>>
    /\ UNCHANGED <<execConfigured, executorAuthorized>>
    /\ UNCHANGED <<waitVars, jobVars, restVars>>

NextExec ==
    \/ ExecSubmit
    \/ ExecMined


\* ---- claims about POST /settlement/execute ----

\* The revert data the handler reads: err.data ?? err.info?.error?.data
RevertData(err) == Coalesce(err.data, err.infoData)

\* C5: at most one settlement succeeds per attestation; no execute carrying an
\* attestation that was already settled succeeds; and every execute the contract
\* rejects because its attestation was already settled is answered with status 500
\* and the already-settled message, not with a generic failure.
C5_ReplayAnsweredAlreadySettled ==
    /\ \A a \in AttBytes : chainLog[a] <= 1
    /\ lastExec.reused => lastExec.via # "ok"
    /\ lastExec.verdict = "settled"
          => (lastExec.status = 500 /\ lastExec.message = MSG_SETTLED)

\* C6: the catch block answers 500; revert data whose first 4 bytes are one of
\* the three selectors yields that selector's message, the three messages being
\* pairwise distinct; anything else yields the error's own reason, short message
\* or message (the first that is present), which is none of the three.
C6_SelectorLookup ==
    lastExec.via = "catch" =>
        LET e == lastExec.err
            generic == IF e.reason \notin {Null, Undef} THEN e.reason
                       ELSE IF e.shortMessage \notin {Null, Undef} THEN e.shortMessage
                       ELSE IF e.message \notin {Null, Undef} THEN e.message
                       ELSE MSG_DEFAULT
        IN  /\ lastExec.status = 500
            /\ Cardinality(KindMessages) = 3
            /\ CarriesSelector(e, SEL_INSUFFICIENT) => lastExec.message = MSG_INSUFFICIENT
            /\ CarriesSelector(e, SEL_SETTLED) => lastExec.message = MSG_SETTLED
            /\ CarriesSelector(e, SEL_EXECUTOR) => lastExec.message = MSG_EXECUTOR
            /\ (\A sel \in {SEL_INSUFFICIENT, SEL_SETTLED, SEL_EXECUTOR} :
                    ~CarriesSelector(e, sel))
                  => (lastExec.message = generic /\ lastExec.message \notin KindMessages)

\* C6 witness: the contract rejected for lack of funds, the revert data came with
\* arguments after the selector, and the answer is the insufficient-treasury one.
C6_Witness ==
    /\ lastExec.via = "catch"
    /\ lastExec.verdict = "insufficient"
    /\ lastExec.err.data.t = "str"
    /\ Len(lastExec.err.data.v) > 10
    /\ lastExec.message = MSG_INSUFFICIENT
    /\ lastExec.status = 500
\* The body does not carry two arrays of the same non-zero length.
BadArrays(body) ==
    \/ ~body.recipients.arr
    \/ ~body.amounts.arr
    \/ Len(body.recipients.items) # Len(body.amounts.items)
    \/ Len(body.recipients.items) = 0

\* The attestation of the body passes the handler's own test (a non-empty
\* string that starts with 0x).
AttestationAccepted(body) ==
    /\ body.attestation.t = "str"
    /\ Len(body.attestation.v) >= 2
    /\ body.attestation.v[1] = "0"
    /\ body.attestation.v[2] = "x"

\* Some recipient is not 0x followed by 40 hex digits (blanks around it aside).
HasBadRecipient(body) ==
    \E i \in 1..Len(body.recipients.items) :
        LET s == Trim(body.recipients.items[i])
        IN  ~(Len(s) = 42 /\ s[1] = "0" /\ s[2] = "x"
              /\ \A k \in 3..42 : s[k] \in HexLower \cup HexUpper)

\* Some amount is not a finite number >= 0.
HasBadAmount(body) ==
    \E i \in 1..Len(body.amounts.items) :
        LET a == body.amounts.items[i]
        IN  a.t \notin {"num", "numstr"} \/ a.v < 0

\* C21: with the service configured, a body whose recipients and amounts are not
\* both arrays of the same non-zero length is answered 400 by the validation and
\* nothing is sent to the contract (unconfigured, the answer is 503 and nothing
\* is sent either); every transaction sent has as many recipients as amounts,
\* and at least one.
C21_BadArraysRejected ==
    /\ [](\A tx \in BagToSet(pendingTx) :
             Len(tx.recipients) = Len(tx.amounts) /\ Len(tx.recipients) > 0)
    /\ [][\A body \in ExecBodies : (BadArrays(body) /\ PostExecute(body)) =>
             /\ pendingTx' = pendingTx
             /\ settledAtts' = settledAtts
             /\ chainLog' = chainLog
             /\ lastExec'.body = body
             /\ execConfigured => (lastExec'.status = 400 /\ lastExec'.via = "validation")
             /\ ~execConfigured => lastExec'.status = 503]_vars

\* C21 witness: two empty arrays with a well-formed attestation were refused by
\* the at-least-one-recipient test.
C21_Witness ==
    /\ lastExec.status = 400
    /\ lastExec.stage = "empty"
    /\ lastExec.body.recipients = Arr(<<>>)
    /\ lastExec.body.amounts = Arr(<<>>)
    /\ pendingTx = EmptyBag

\* C22: a body with well-formed arrays and attestation but a malformed recipient
\* or amount is answered with status 400, and nothing is sent to the contract.
C22_BadElementsAre400 ==
    (/\ execConfigured
     /\ lastExec.via # "none"
     /\ ~BadArrays(lastExec.body)
     /\ AttestationAccepted(lastExec.body)
     /\ (HasBadRecipient(lastExec.body) \/ HasBadAmount(lastExec.body)))
        => lastExec.status = 400

\* C23: no transaction carries empty attestation bytes, and a body whose
\* attestation is absent, not 0x-prefixed or exactly "0x" is answered 400 by the
\* validation.
C23_NoEmptyAttestationSubmitted ==
    /\ \A tx \in BagToSet(pendingTx) : Len(tx.attestation) > 0
    /\ chainLog[<<>>] = 0
    /\ (/\ execConfigured
        /\ lastExec.via # "none"
        /\ ~BadArrays(lastExec.body)
        /\ (~AttestationAccepted(lastExec.body) \/ lastExec.body.attestation = Str(ATT_EMPTY)))
          => (lastExec.status = 400 /\ lastExec.via = "validation")


(***************************************************************************)
(* Job Ledger: table jobs, POST /jobs, PATCH /jobs/by-task/:taskId         *)
(*                                                                         *)
(* Each handler issues one statement on table jobs (an INSERT .. ON        *)
(* CONFLICT or an UPDATE), which Postgres executes atomically; handlers    *)
(* that run concurrently are therefore serialised in the order of their    *)
(* statements, and one action stands for one handler.                      *)
(***************************************************************************)

\* Number of statements the model executes; NOW() advances with each.
MaxDbTime == 4

\* An absent timestamp (SQL NULL, or a missing body field).
NoTs == 0 - 1

\* JSONB null, which is not SQL NULL.
JsonNull == "JSON_NULL"

T1     == <<"t", "1">>
T1_PAD == <<" ", "t", "1">>
T2     == <<"t", "2">>

JobsInit ==
    /\ dbConfigured \in BOOLEAN
    /\ jobs = {}
    /\ nextRowId = 1
    /\ dbNow = 1
    /\ lastJobOp = [op |-> "none", code |-> 0]

RowsIn(table, t) == {r \in table : r.task_id = t}

RowsOf(t) == RowsIn(jobs, t)

\* What a reader of the row sees in row.result: JSONB null parses to null.
SeenResult(r) == IF r.result = JsonNull THEN Null ELSE r.result

\* COALESCE(a, b) on column values
SqlCoalesce(a, b) == IF a = Null THEN b ELSE a

\* x || dflt for a string-or-absent body field
OrElse(x, dflt) == IF x \in {Undef, Null} THEN dflt ELSE x

\* The parameters postJob passes to createJob, and createJob to the INSERT.
CreateParams(body) ==
    [wallet_address |-> IF body.walletAddress.t = "str" /\ body.walletAddress.v # <<>>
                        THEN Str(ToLowerCase(body.walletAddress.v)) ELSE NullV,
     task_id |-> Trim(body.taskId.v),
     deal_id |-> OrElse(body.dealId, Null),
     settlement_name |-> OrElse(body.settlementName, "Settlement"),
     status |-> OrElse(body.status, "submitted"),
     result |-> OrElse(body.result, Null),
     error |-> OrElse(body.error, Null),
     dataset_url_override |-> OrElse(body.datasetUrlOverride, Null),
     submitted_at |-> IF body.submittedAt > 0 THEN body.submittedAt ELSE dbNow]

\* VALUES (...) with the column defaults of the table.
InsertedRow(p) ==
    [id |-> nextRowId,
     wallet_address |-> p.wallet_address,
     task_id |-> p.task_id,
     deal_id |-> p.deal_id,
     settlement_name |-> p.settlement_name,
     status |-> p.status,
     result |-> p.result,
     error |-> p.error,
     dataset_url_override |-> p.dataset_url_override,
     submitted_at |-> p.submitted_at,
     settled_tx_hash |-> Null,
     settled_at |-> NoTs,
     created_at |-> dbNow,
     updated_at |-> dbNow]

\* ON CONFLICT (task_id) DO UPDATE SET ..., without the COALESCE on result.
ConflictUpdateNoCoalesce(r, p) ==
    [r EXCEPT !.deal_id = SqlCoalesce(p.deal_id, r.deal_id),
              !.settlement_name = SqlCoalesce(p.settlement_name, r.settlement_name),
              !.status = p.status,
              !.result = p.result,
              !.error = p.error,
              !.updated_at = dbNow]

\* ON CONFLICT (task_id) DO UPDATE SET ..., keeping the stored status.
ConflictUpdateKeepStatus(r, p) ==
    [r EXCEPT !.deal_id = SqlCoalesce(p.deal_id, r.deal_id),
              !.settlement_name = SqlCoalesce(p.settlement_name, r.settlement_name),
              !.result = SqlCoalesce(p.result, r.result),
              !.error = p.error,
              !.updated_at = dbNow]

\* ON CONFLICT (task_id) DO UPDATE SET ...
ConflictUpdate(r, p) ==
    [r EXCEPT !.deal_id = SqlCoalesce(p.deal_id, r.deal_id),
              !.settlement_name = SqlCoalesce(p.settlement_name, r.settlement_name),
              !.status = p.status,
              !.result = SqlCoalesce(p.result, r.result),
              !.error = p.error,
              !.updated_at = dbNow]

\* A plain INSERT into a table without the UNIQUE constraint on task_id.
InsertAlways(p) == jobs \cup {InsertedRow(p)}

\* INSERT INTO jobs ... ON CONFLICT (task_id) DO UPDATE ...: the table after it.
Upsert(p) ==
    IF RowsOf(p.task_id) = {}
    THEN jobs \cup {InsertedRow(p)}
    ELSE {IF r.task_id = p.task_id THEN ConflictUpdate(r, p) ELSE r : r \in jobs}

\* postJob(req, res)
PostJob(body) ==
    IF ~dbConfigured THEN
        /\ lastJobOp' = [op |-> "create", code |-> 503]
        /\ UNCHANGED <<jobs, nextRowId, dbNow>>
    ELSE IF body.taskId.t # "str" \/ body.taskId.v = <<>> THEN
        /\ lastJobOp' = [op |-> "create", code |-> 400]
        /\ UNCHANGED <<jobs, nextRowId, dbNow>>
    ELSE
        /\ dbNow < MaxDbTime
        /\ jobs' = Upsert(CreateParams(body))
        /\ nextRowId' = IF RowsOf(CreateParams(body).task_id) = {}
                        THEN nextRowId + 1 ELSE nextRowId
        /\ dbNow' = dbNow + 1
        /\ lastJobOp' = [op |-> "create", code |-> 201]

\* An UPDATE that writes all five columns, an absent field as its default.
PatchedRowAllColumns(r, u) ==
    [r EXCEPT !.status = IF u.status # Undef THEN u.status ELSE "submitted",
              !.result = IF u.result # Undef
                         THEN (IF u.result = Null THEN JsonNull ELSE u.result)
                         ELSE Null,
              !.error = IF u.error # Undef THEN u.error ELSE Null,
              !.settled_tx_hash = IF u.settledTxHash # Undef THEN u.settledTxHash ELSE Null,
              !.settled_at = u.settledAt,
              !.updated_at = dbNow]

\* The UPDATE storing settled_tx_hash only on a row that has a result.
PatchedRowHashNeedsResult(r, u) ==
    [r EXCEPT !.status = IF u.status # Undef THEN u.status ELSE @,
              !.result = IF u.result # Undef
                         THEN (IF u.result = Null THEN JsonNull ELSE u.result)
                         ELSE @,
              !.error = IF u.error # Undef THEN u.error ELSE @,
              !.settled_tx_hash = IF u.settledTxHash # Undef /\ SeenResult(r) # Null
                                  THEN u.settledTxHash ELSE @,
              !.settled_at = IF u.settledAt # NoTs THEN u.settledAt ELSE @,
              !.updated_at = dbNow]

\* SET col = $n for every field the body supplies, and updated_at = NOW().
PatchedRow(r, u) ==
    [r EXCEPT !.status = IF u.status # Undef THEN u.status ELSE @,
              !.result = IF u.result # Undef
                         THEN (IF u.result = Null THEN JsonNull ELSE u.result)
                         ELSE @,
              !.error = IF u.error # Undef THEN u.error ELSE @,
              !.settled_tx_hash = IF u.settledTxHash # Undef THEN u.settledTxHash ELSE @,
              !.settled_at = IF u.settledAt # NoTs THEN u.settledAt ELSE @,
              !.updated_at = dbNow]

NoUpdates(u) ==
    /\ u.status = Undef
    /\ u.result = Undef
    /\ u.error = Undef
    /\ u.settledTxHash = Undef
    /\ u.settledAt = NoTs

\* patchJobByTaskId without the two "no field supplied" checks: the UPDATE then
\* sets updated_at alone.
PatchJobNoEmptyCheck(taskId, u) ==
    IF ~dbConfigured THEN
        /\ lastJobOp' = [op |-> "patch", code |-> 503]
        /\ UNCHANGED <<jobs, nextRowId, dbNow>>
    ELSE IF RowsOf(Trim(taskId)) = {} THEN
        /\ lastJobOp' = [op |-> "patch", code |-> 404]
        /\ UNCHANGED <<jobs, nextRowId, dbNow>>
    ELSE
        /\ dbNow < MaxDbTime
        /\ jobs' = {IF r.task_id = Trim(taskId) THEN PatchedRow(r, u) ELSE r : r \in jobs}
        /\ dbNow' = dbNow + 1
        /\ lastJobOp' = [op |-> "patch", code |-> 200]
        /\ UNCHANGED nextRowId

\* patchJobByTaskId(req, res); u is the body, taskId the :taskId of the path.
PatchJob(taskId, u) ==
    IF ~dbConfigured THEN
        /\ lastJobOp' = [op |-> "patch", code |-> 503]
        /\ UNCHANGED <<jobs, nextRowId, dbNow>>
    ELSE IF NoUpdates(u) THEN
        /\ lastJobOp' = [op |-> "patch", code |-> 400]
        /\ UNCHANGED <<jobs, nextRowId, dbNow>>
    ELSE IF u.status = Null /\ RowsOf(Trim(taskId)) # {} THEN
        \* status is NOT NULL: the UPDATE fails, the catch answers 500
        /\ lastJobOp' = [op |-> "patch", code |-> 500]
        /\ UNCHANGED <<jobs, nextRowId, dbNow>>
    ELSE IF RowsOf(Trim(taskId)) = {} THEN
        /\ lastJobOp' = [op |-> "patch", code |-> 404]
        /\ UNCHANGED <<jobs, nextRowId, dbNow>>
    ELSE
        /\ dbNow < MaxDbTime
        /\ jobs' = {IF r.task_id = Trim(taskId) THEN PatchedRow(r, u) ELSE r : r \in jobs}
        /\ dbNow' = dbNow + 1
        /\ lastJobOp' = [op |-> "patch", code |-> 200]
        /\ UNCHANGED nextRowId

\* ---- the requests the model sends ----

CreateBodies ==
    [walletAddress : {UndefV}, taskId : {Str(T1), Str(T1_PAD), Str(T2), UndefV},
     dealId : {Undef}, settlementName : {Undef},
     status : {Undef, "completed", "failed"},
     result : {Undef, "r1", "r2"}, error : {Undef},
     datasetUrlOverride : {Undef}, submittedAt : {NoTs}]

PatchTaskIds == {T1, T2}

PatchBodies ==
    [status : {Undef, "completed", "settled"}, result : {Undef, Null, "r1", "r2"},
     error : {Undef}, settledTxHash : {Undef, "h1"}, settledAt : {NoTs}]

JobCreate ==
    /\ \E body \in CreateBodies : PostJob(body)
    /\ UNCHANGED dbConfigured
    /\ UNCHANGED <<waitVars, execVars, restVars>>

JobPatch ==
    /\ \E t \in PatchTaskIds : \E u \in PatchBodies : PatchJob(t, u)
    /\ UNCHANGED dbConfigured
    /\ UNCHANGED <<waitVars, execVars, restVars>>

NextJobs ==
    \/ JobCreate
    \/ JobPatch

\* ---- claims about the job ledger ----

HasResult(r) == SeenResult(r) # Null

\* C7 (as claimed): in every reachable state, a job with a settledTxHash has a
\* result.
C7_SettledImpliesResult ==
    \A r \in jobs : r.settled_tx_hash # Null => HasResult(r)

\* A patch that follows the callers' ordering: it supplies a settledTxHash only to
\* a job that has a result (and keeps it) or gets one in the same patch, and it
\* supplies a null result only to a job without settledTxHash.
OrderedPatch(t, u) ==
    \A r \in RowsOf(Trim(t)) :
        /\ u.settledTxHash \notin {Undef, Null}
              => \/ HasResult(r) /\ u.result = Undef
                 \/ u.result \notin {Undef, Null}
        /\ u.result = Null
              => /\ r.settled_tx_hash = Null
                 /\ u.settledTxHash \in {Undef, Null}

\* C7 (amended): the ledger does not enforce the invariant, it only preserves it:
\* every create, and every patch that follows the callers' ordering, leads from a
\* state where every job with a settledTxHash has a result to another such state.
C7_OrderedCallersKeepInvariant ==
    [][(C7_SettledImpliesResult
          /\ \/ JobCreate
             \/ \E t \in PatchTaskIds : \E u \in PatchBodies :
                    PatchJob(t, u) /\ OrderedPatch(t, u))
       => C7_SettledImpliesResult']_vars

\* C7 witness: a job with a result and a settledTxHash, touched again afterwards
\* by a create.
C7_Witness ==
    /\ lastJobOp = [op |-> "create", code |-> 201]
    /\ \E r \in jobs : /\ r.settled_tx_hash # Null
                       /\ HasResult(r)
                       /\ r.updated_at = dbNow - 1

\* C8: once a job has a result, no later create or patch on the same taskId
\* changes the stored result.
C8_ResultImmutable ==
    [][\A r \in jobs : HasResult(r) =>
          \A r2 \in jobs' : r2.task_id = r.task_id => r2.result = r.result]_vars

\* C9: a create on a taskId that already has a job leaves exactly one job for it,
\* the same row, with the status of this call (submitted when the call gives
\* none) and, when the call carries no result, the result it had.
C9_CreateIdempotent ==
    [][\A body \in CreateBodies :
          LET t == Trim(body.taskId.v)
          IN  (PostJob(body) /\ lastJobOp'.code = 201 /\ RowsOf(t) # {}) =>
                 /\ Cardinality(RowsIn(jobs', t)) = 1
                 /\ Cardinality(jobs') = Cardinality(jobs)
                 /\ \A old \in RowsOf(t) : \A new \in RowsIn(jobs', t) :
                       /\ new.id = old.id
                       /\ new.status = IF body.status = Undef THEN "submitted"
                                       ELSE body.status
                       /\ body.result \in {Undef, Null} => new.result = old.result
      ]_vars

\* C9 witness: a second create changed the status of a job that has a result.
C9_Witness ==
    /\ lastJobOp = [op |-> "create", code |-> 201]
    /\ \E r \in jobs : /\ r.updated_at = dbNow - 1
                       /\ r.updated_at > r.created_at
                       /\ r.status = "failed"
                       /\ HasResult(r)

\* C10: the table never holds two rows with the same task_id, and a row once
\* inserted stays, with its id and task_id.
C10_OneRowPerTaskNeverRemoved ==
    /\ [](\A r1 \in jobs : \A r2 \in jobs : r1.task_id = r2.task_id => r1 = r2)
    /\ [][\A r \in jobs : \E r2 \in jobs' : r2.id = r.id /\ r2.task_id = r.task_id]_vars

\* C10 witness: two jobs, one of them created a second time (with a padded id).
C10_Witness ==
    /\ Cardinality(jobs) = 2
    /\ lastJobOp = [op |-> "create", code |-> 201]
    /\ \E r \in jobs : r.updated_at > r.created_at /\ r.updated_at = dbNow - 1
\* The statuses of the job state machine.
JobStatuses == {"submitted", "completed", "failed", "settled"}

\* C11: the status of every job is one of submitted, completed, failed, settled;
\* a job is created in submitted; a job becomes settled only from completed, and
\* a settled job stays settled.
C11_StatusStateMachine ==
    /\ [](\A r \in jobs : r.status \in JobStatuses)
    /\ [][\A r2 \in jobs' :
             IF RowsOf(r2.task_id) = {}
             THEN r2.status = "submitted"
             ELSE \A r \in RowsOf(r2.task_id) :
                     /\ (r2.status = "settled" /\ r.status # "settled")
                           => r.status = "completed"
                     /\ r.status = "settled" => r2.status = "settled"]_vars

\* C12: a patch answered 404 or 400 leaves the jobs table, updated_at of every
\* row included, as it was; 404 is the answer for a taskId without a row when the
\* body supplies a field, 400 the answer when it supplies none.
C12_FailedPatchChangesNothing ==
    [][\A t \in PatchTaskIds : \A u \in PatchBodies :
          PatchJob(t, u) =>
             /\ lastJobOp'.code \in {400, 404} => (jobs' = jobs /\ nextRowId' = nextRowId)
             /\ (dbConfigured /\ NoUpdates(u)) => lastJobOp'.code = 400
             /\ (dbConfigured /\ ~NoUpdates(u) /\ RowsOf(Trim(t)) = {})
                   => lastJobOp'.code = 404
             /\ lastJobOp'.code = 404 => RowsOf(Trim(t)) = {}]_vars

\* C12 witness: a patch on an unknown taskId was answered 404 while the table
\* holds a job for another taskId.
C12_Witness ==
    /\ lastJobOp = [op |-> "patch", code |-> 404]
    /\ jobs # {}
    /\ Cardinality(jobs) = 1

\* ---- requests that exercise dealId, submittedAt and settledTxHash ----

\* A caller-supplied submittedAt later than every NOW() of the model.
FutureTs == MaxDbTime + 1

FieldCreateBodies ==
    [walletAddress : {UndefV}, taskId : {Str(T1), Str(T2)},
     dealId : {Undef, "d1", "d2"}, settlementName : {Undef}, status : {Undef},
     result : {Undef, "r1"}, error : {Undef}, datasetUrlOverride : {Undef},
     submittedAt : {NoTs, FutureTs}]

FieldPatchBodies ==
    [status : {Undef, "settled"}, result : {Undef, "r1"}, error : {Undef},
     settledTxHash : {Undef, Null, "h1", "h2"}, settledAt : {NoTs}]

JobCreateFields ==
    /\ \E body \in FieldCreateBodies : PostJob(body)
    /\ UNCHANGED dbConfigured
    /\ UNCHANGED <<waitVars, execVars, restVars>>

JobPatchFields ==
    /\ \E t \in PatchTaskIds : \E u \in FieldPatchBodies : PatchJob(t, u)
    /\ UNCHANGED dbConfigured
    /\ UNCHANGED <<waitVars, execVars, restVars>>

NextJobFields ==
    \/ JobCreateFields
    \/ JobPatchFields

\* C27: once a job has a non-null dealId, no create or patch on its taskId
\* changes it.
C27_DealIdImmutable ==
    [][\A r \in jobs : r.deal_id # Null =>
          \A r2 \in RowsIn(jobs', r.task_id) : r2.deal_id = r.deal_id]_vars

\* C28: in every state, submittedAt of a job is not later than its updatedAt.
C28_SubmittedNotAfterUpdated ==
    \A r \in jobs : r.submitted_at <= r.updated_at

\* C29: once settledTxHash of a job is non-null, no create or patch on its taskId
\* changes it or resets it to null (so at most one patch ever sets it).
C29_SettledTxHashSetOnce ==
    [][\A r \in jobs : r.settled_tx_hash # Null =>
          \A r2 \in RowsIn(jobs', r.task_id) :
              r2.settled_tx_hash = r.settled_tx_hash]_vars

\* C30: a patch that supplies settledTxHash for an existing job whose result is
\* null is answered 200 and the row then holds that hash, its result untouched
\* unless the patch supplies one.
C30_HashStoredWithoutResult ==
    [][\A t \in PatchTaskIds : \A u \in FieldPatchBodies :
          (/\ PatchJob(t, u)
           /\ dbConfigured
           /\ u.settledTxHash \notin {Undef, Null}
           /\ \E r \in RowsOf(Trim(t)) : SeenResult(r) = Null)
          => /\ lastJobOp'.code = 200
             /\ \A r2 \in RowsIn(jobs', Trim(t)) :
                   /\ r2.settled_tx_hash = u.settledTxHash
                   /\ u.result = Undef => SeenResult(r2) = Null]_vars

\* C30 witness: a job holds a settlement hash and no result, after a patch.
C30_Witness ==
    /\ lastJobOp = [op |-> "patch", code |-> 200]
    /\ \E r \in jobs : r.settled_tx_hash = "h1" /\ SeenResult(r) = Null


\* ---- patches that supply every field, on one job ----

OrderCreateBodies ==
    [walletAddress : {UndefV}, taskId : {Str(T1)}, dealId : {Undef},
     settlementName : {Undef}, status : {Undef}, result : {Undef, "r1"},
     error : {Undef}, datasetUrlOverride : {Undef}, submittedAt : {NoTs}]

OrderPatchBodies ==
    [status : {Undef, "settled"}, result : {Undef, Null, "r2"},
     error : {Undef, "e1"}, settledTxHash : {Undef, "h1"}, settledAt : {NoTs, 2}]

JobCreateOne ==
    /\ \E body \in OrderCreateBodies : PostJob(body)
    /\ UNCHANGED dbConfigured
    /\ UNCHANGED <<waitVars, execVars, restVars>>

JobPatchOrder ==
    /\ \E t \in PatchTaskIds : \E u \in OrderPatchBodies : PatchJob(t, u)
    /\ UNCHANGED dbConfigured
    /\ UNCHANGED <<waitVars, execVars, restVars>>

NextPatchOrder ==
    \/ JobCreateOne
    \/ JobPatchOrder

\* The table after patchJobByTaskId(t, u) ran on it: one UPDATE of the row of
\* t, or no change when the handler answers 400, 404, 500 or 503.
Applied(table, t, u) ==
    IF ~dbConfigured \/ NoUpdates(u) \/ u.status = Null \/ RowsIn(table, Trim(t)) = {}
    THEN table
    ELSE {IF r.task_id = Trim(t) THEN PatchedRow(r, u) ELSE r : r \in table}

PatchFields == {"status", "result", "error", "settledTxHash", "settledAt"}

\* The fields a patch supplies.
Supplies(u) ==
    {f \in PatchFields : IF f = "settledAt" THEN u.settledAt # NoTs ELSE u[f] # Undef}

\* The column a field is stored in.
ColumnOf(r, f) ==
    CASE f = "status" -> r.status
      [] f = "result" -> r.result
      [] f = "error" -> r.error
      [] f = "settledTxHash" -> r.settled_tx_hash
      [] f = "settledAt" -> r.settled_at

\* The value a supplied field is stored as.
StoredAs(u, f) == IF f = "result" /\ u.result = Null THEN JsonNull ELSE u[f]

\* The five patchable columns of every row, by task.
Patchable(table) ==
    {[task_id |-> r.task_id, status |-> r.status, result |-> r.result,
      error |-> r.error, settled_tx_hash |-> r.settled_tx_hash,
      settled_at |-> r.settled_at] : r \in table}

\* C31: two patches of one taskId with disjoint fields leave the same status,
\* result, error, settledTxHash and settledAt in either order (each UPDATE is one
\* atomic statement, so concurrent patches run in one of the two orders); a patch
\* leaves the fields it does not supply unchanged; and a field both supply holds
\* the value of the patch applied last.
C31_DisjointPatchesCommute ==
    /\ [](\A t \in PatchTaskIds : \A u1, u2 \in OrderPatchBodies :
            LET ab == Applied(Applied(jobs, t, u1), t, u2)
                ba == Applied(Applied(jobs, t, u2), t, u1)
            IN  /\ Supplies(u1) \cap Supplies(u2) = {}
                      => Patchable(ab) = Patchable(ba)
                /\ (dbConfigured /\ Supplies(u2) # {}) =>
                      \A r \in RowsIn(ab, t) : \A f \in Supplies(u2) :
                          ColumnOf(r, f) = StoredAs(u2, f))
    /\ [][\A t \in PatchTaskIds : \A u \in OrderPatchBodies : PatchJob(t, u) =>
            /\ jobs' = Applied(jobs, t, u)
            /\ \A r \in RowsOf(t) : \A r2 \in RowsIn(jobs', t) :
                  \A f \in PatchFields \ Supplies(u) :
                      ColumnOf(r2, f) = ColumnOf(r, f)]_vars

\* C31 witness: after its create a job was patched twice, and holds a result, an
\* error, a settlement hash and a settlement time that no single create stored.
C31_Witness ==
    /\ lastJobOp = [op |-> "patch", code |-> 200]
    /\ \E r \in jobs :
          /\ r.created_at = 1
          /\ r.updated_at = 3
          /\ r.result = "r2"
          /\ r.error = "e1"
          /\ r.settled_tx_hash = "h1"
          /\ r.settled_at = 2


\* ---- listing: GET /jobs?wallet=..., listAllJobs ----

WALLET_A       == <<"0", "x", "a", "b">>
WALLET_A_UPPER == <<"0", "x", "A", "B">>
WALLET_A_PAD   == <<" ", "0", "x", "A", "b", " ">>
WALLET_B       == <<"0", "x", "c", "d">>
WALLET_BLANK   == <<" ", " ">>

ListCreateBodies ==
    [walletAddress : {UndefV, Str(WALLET_A_UPPER), Str(WALLET_A_PAD), Str(WALLET_B)},
     taskId : {Str(T1), Str(T2)}, dealId : {Undef},
     settlementName : {Undef, "Payroll"}, status : {Undef}, result : {Undef},
     error : {Undef}, datasetUrlOverride : {Undef}, submittedAt : {NoTs}]

\* req.query.wallet
WalletQueries ==
    {UndefV, Str(<<>>), Str(WALLET_BLANK), Str(WALLET_A), Str(WALLET_A_UPPER),
     Str(WALLET_A_PAD), Str(WALLET_B)}

\* The limits callers pass to listAllJobs (undefined takes the default 500).
LimitValues == {UndefV, NaN, Num(0 - 5), Num(0), Num(2), Num(2000)}

\* Row counts of table jobs, beyond what the model's own table can hold.
TableSizes == {0, 2, 1000, 5000}

NoList ==
    [op |-> "none", wallet |-> UndefV, limit |-> UndefV, size |-> 0, http |-> 0,
     threw |-> FALSE, rows |-> <<>>, count |-> 0]

ListInit == listed = NoList

\* WHERE wallet_address = $1 taking the wallet as given.
ListKeyVerbatim(wallet) == wallet

\* [String(walletAddress).toLowerCase()]
ListKey(wallet) == ToLowerCase(wallet)

\* ORDER BY submitted_at DESC: the rows in any order that never increases.
OrderedDesc(S) ==
    {seq \in [1..Cardinality(S) -> S] :
        /\ \A i, j \in 1..Cardinality(S) : seq[i] = seq[j] => i = j
        /\ \A i \in 1..(Cardinality(S) - 1) :
              seq[i].submitted_at >= seq[i + 1].submitted_at}

\* listJobs(walletAddress): the results the query may return.
listJobs(wallet) ==
    IF ~dbConfigured THEN {<<>>}
    ELSE IF wallet.t # "str" \/ Trim(wallet.v) = <<>> THEN {<<>>}
    ELSE OrderedDesc({r \in jobs : r.wallet_address = Str(ListKey(wallet.v))})

\* getJobs(req, res)
GetJobs(q) ==
    LET wallet == IF q.t = "str" THEN Str(Trim(q.v)) ELSE NullV
    IN  IF ~dbConfigured \/ wallet.t # "str" \/ wallet.v = <<>>
        THEN listed' = [NoList EXCEPT !.op = "wallet", !.wallet = q, !.http = 200]
        ELSE \E rows \in listJobs(wallet) :
                listed' = [NoList EXCEPT !.op = "wallet", !.wallet = q, !.http = 200,
                                         !.rows = rows, !.count = Len(rows)]

\* Math.min(Number(limit) || 500, 1000), limit = 500 by default
EffectiveLimit(limit) ==
    LET n == IF limit.t = "undef" THEN Num(500) ELSE limit
        m == IF n.t # "num" \/ n.v = 0 THEN 500 ELSE n.v
    IN  Min(m, 1000)

\* listAllJobs(limit) on a table of size rows: LIMIT $1, which Postgres
\* refuses when negative.
ListAllJobs(limit, size) ==
    IF ~dbConfigured
    THEN listed' = [NoList EXCEPT !.op = "all", !.limit = limit, !.size = size]
    ELSE IF EffectiveLimit(limit) < 0
    THEN listed' = [NoList EXCEPT !.op = "all", !.limit = limit, !.size = size,
                                  !.threw = TRUE]
    ELSE listed' = [NoList EXCEPT !.op = "all", !.limit = limit, !.size = size,
                                  !.count = Min(EffectiveLimit(limit), size)]

ListCreate ==
    /\ \E body \in ListCreateBodies : PostJob(body)
    /\ UNCHANGED dbConfigured
    /\ UNCHANGED <<waitVars, execVars, restVars>>

ListByWallet ==
    /\ \E q \in WalletQueries : GetJobs(q)
    /\ UNCHANGED <<waitVars, execVars, jobVars, treasuryVars, fetchVars, pipeVars>>
    /\ UNCHANGED <<conv, faucetVars>>

ListAll ==
    /\ \E limit \in LimitValues : \E size \in TableSizes : ListAllJobs(limit, size)
    /\ UNCHANGED <<waitVars, execVars, jobVars, treasuryVars, fetchVars, pipeVars>>
    /\ UNCHANGED <<conv, faucetVars>>

NextList ==
    \/ ListCreate
    \/ ListByWallet
    \/ ListAll

\* C33: a create on an existing taskId leaves settledTxHash, settledAt,
\* walletAddress, submittedAt and datasetUrlOverride as stored, and keeps
\* result and dealId when the call carries none; only status, error and
\* updatedAt are taken from the latest call, so that the stored name too is
\* kept when the call carries none.
C33_CreateKeepsStoredFields ==
    [][\A body \in ListCreateBodies : (PostJob(body) /\ lastJobOp'.code = 201) =>
          \A r \in RowsOf(Trim(body.taskId.v)) : \A r2 \in RowsIn(jobs', r.task_id) :
              /\ r2.settled_tx_hash = r.settled_tx_hash
              /\ r2.settled_at = r.settled_at
              /\ r2.wallet_address = r.wallet_address
              /\ r2.submitted_at = r.submitted_at
              /\ r2.dataset_url_override = r.dataset_url_override
              /\ body.result = Undef => r2.result = r.result
              /\ body.dealId = Undef => r2.deal_id = r.deal_id
              /\ body.settlementName = Undef => r2.settlement_name = r.settlement_name
              /\ r2.status = (IF body.status = Undef THEN "submitted" ELSE body.status)
              /\ r2.error = (IF body.error = Undef THEN Null ELSE body.error)
              /\ r2.updated_at = dbNow]_vars

\* The wallet a query asks for: its text without the blanks around it, or
\* nothing.
AskedWallet(q) == IF q.t = "str" THEN Trim(q.v) ELSE <<>>

\* C34: listing by wallet always answers 200; with the wallet absent or blank,
\* or without a store, the list is empty; otherwise it holds each job whose
\* wallet equals the asked one up to letter case, once, by submittedAt
\* descending. listAllJobs returns at most 1000 jobs for every limit.
C34_ListByWalletAndCap ==
    /\ [](listed.op = "all" => listed.count <= 1000 /\ listed.count <= listed.size)
    /\ [][(\E q \in WalletQueries : GetJobs(q)) =>
            LET rows == listed'.rows
                asked == AskedWallet(listed'.wallet)
            IN  /\ listed'.http = 200
                /\ ~listed'.threw
                /\ (~dbConfigured \/ asked = <<>>) => rows = <<>>
                /\ (dbConfigured /\ asked # <<>>) =>
                      /\ {rows[i] : i \in 1..Len(rows)}
                            = {r \in jobs : /\ r.wallet_address.t = "str"
                                            /\ ToLowerCase(r.wallet_address.v)
                                                  = ToLowerCase(asked)}
                      /\ \A i, j \in 1..Len(rows) : rows[i] = rows[j] => i = j
                      /\ \A i, j \in 1..Len(rows) :
                            i < j => rows[i].submitted_at >= rows[j].submitted_at]_vars

\* C34 witness: a wallet stored from an upper-case spelling was asked for in
\* another spelling with blanks around, and its two jobs came back, the later
\* submittedAt first.
C34_Witness ==
    /\ listed.op = "wallet"
    /\ listed.wallet = Str(WALLET_A_PAD)
    /\ Len(listed.rows) = 2
    /\ listed.rows[1].submitted_at > listed.rows[2].submitted_at



(***************************************************************************)
(* Treasury Cache: GET /settlement/treasury-balance                        *)
(*                                                                         *)
(* getTreasuryBalanceRoute suspends at the SELECT, at token.balanceOf and  *)
(* at the upsert; requests of one or several backend processes that share  *)
(* the store interleave at these points.  Each SQL statement is atomic.    *)
(* The column updated_at is written by the upsert and read by no handler;  *)
(* it is left out of the rows.                                             *)
(***************************************************************************)

\* How many handlers may be suspended at once, and how many requests arrive.
MaxReads == 2
MaxRequests == 3

\* Raw balances the token contract may report (6 decimals).
ChainValues == {1239999, 1234500000}

\* SETTLEMENT_CONTRACT_ADDRESS as the processes spell it: one address, two cases.
TreasuryAddrs == {ADDR_MIXED, ToLowerCase(ADDR_MIXED)}

\* req.query.refresh
RefreshValues == {Undef, "1", "true", "0"}

DigitChars == <<"0", "1", "2", "3", "4", "5", "6", "7", "8", "9">>

\* String(n) / n.toString() for a non-negative integer
RECURSIVE NatToStr(_)
NatToStr(n) ==
    IF n < 10 THEN <<DigitChars[n + 1]>>
    ELSE NatToStr(n \div 10) \o <<DigitChars[(n % 10) + 1]>>

\* s.padStart(n, c)
PadStart(s, n, c) == IF Len(s) >= n THEN s ELSE Rep(c, n - Len(s)) \o s

\* whole.toLocaleString() of a non-negative integer in the default (en-US)
\* locale: digits in groups of three.
RECURSIVE ToLocaleString(_)
ToLocaleString(s) ==
    IF Len(s) <= 3 THEN s
    ELSE ToLocaleString(SubSeq(s, 1, Len(s) - 3)) \o <<",">>
            \o SubSeq(s, Len(s) - 2, Len(s))

formatUsdc(raw) ==
    LET d == 10 ^ USDC_DECIMALS
        whole == raw \div d
        frac == raw % d
        fracStr == Slice0(PadStart(NatToStr(frac), USDC_DECIMALS, "0"), 2)
    IN  ToLocaleString(NatToStr(whole)) \o <<".">> \o fracStr

\* const forceRefresh = req.query?.refresh === "1" || req.query?.refresh === "true"
ForceRefresh(q) == q \in {"1", "true"}

\* The store is asked whatever the query says.
UseStoredAlways(q) == dbConfigured

\* if (useDb && !forceRefresh)
UseStored(q) == dbConfigured /\ ~ForceRefresh(q)

\* getTreasuryBalance: WHERE settlement_address = $1 with the lower-cased address
StoredRows(addr) ==
    {r \in treasuryRows : r.settlement_address = ToLowerCase(addr)}

\* The upsert keyed by the address as spelled.
SetKeyVerbatim(addr) == addr

\* setTreasuryBalance: const addr = settlementAddress.toLowerCase()
SetKey(addr) == ToLowerCase(addr)

\* The upsert with the two balance parameters in the wrong order.
UpsertedRowSwapped(addr, raw, formatted) ==
    [settlement_address |-> SetKey(addr),
     balance_raw |-> formatted,
     balance_formatted |-> NatToStr(raw)]

\* VALUES ($1, $2, $3, NOW()) with [addr, String(balanceRaw), balanceFormatted]
UpsertedRow(addr, raw, formatted) ==
    [settlement_address |-> SetKey(addr),
     balance_raw |-> NatToStr(raw),
     balance_formatted |-> formatted]

\* INSERT ... ON CONFLICT (settlement_address) DO UPDATE SET ...: the table after it.
setTreasuryBalance(addr, raw, formatted) ==
    {r \in treasuryRows : r.settlement_address # SetKey(addr)}
        \cup {UpsertedRow(addr, raw, formatted)}

NoRead ==
    [status |-> 0, stage |-> "none", source |-> "none", addr |-> <<>>,
     force |-> FALSE, stored |-> "notasked", chainRead |-> FALSE,
     writeFailed |-> FALSE, balanceRaw |-> <<>>, balanceFormatted |-> <<>>]

NoPlain ==
    [formatted |-> <<>>, prev |-> <<>>, prevChainSame |-> FALSE,
     prevNoWrite |-> FALSE, chainSame |-> FALSE, noWrite |-> FALSE]

TreasuryInit ==
    /\ treasuryConfigured \in BOOLEAN
    /\ chainBalance \in ChainValues
    /\ treasuryRows \in {{}} \cup
          {{UpsertedRow(ToLowerCase(ADDR_MIXED), v, formatUsdc(v))} : v \in ChainValues}
    /\ treasuryReads = EmptyBag
    /\ treasuryCount = 0
    /\ lastRead = NoRead
    /\ lastPlain = NoPlain

\* res.status(...).json(...): what the request is answered with.
Answer(status, stage, source, req, chainRead, writeFailed, raw, formatted) ==
    lastRead' = [status |-> status, stage |-> stage, source |-> source,
                 addr |-> req.addr, force |-> req.force, stored |-> req.stored,
                 chainRead |-> chainRead, writeFailed |-> writeFailed,
                 balanceRaw |-> raw, balanceFormatted |-> formatted]

\* An error answer carries no balance.
AnswerError(status, stage, req, chainRead, writeFailed) ==
    Answer(status, stage, "none", req, chainRead, writeFailed, <<>>, <<>>)

\* A non-refresh read has been answered 200 with `formatted`.  It is compared
\* with the previous such answer when the request was issued after that answer.
PlainAnswered(req, formatted) ==
    lastPlain' = [formatted |-> formatted,
                  prev |-> IF req.old THEN <<>> ELSE lastPlain.formatted,
                  prevChainSame |-> lastPlain.chainSame,
                  prevNoWrite |-> lastPlain.noWrite,
                  chainSame |-> TRUE,
                  noWrite |-> TRUE]

\* The suspended requests, all of them now older than the latest answer.
Aged(reads) ==
    LET olds == {[r EXCEPT !.old = TRUE] : r \in BagToSet(reads)}
    IN  [o \in olds |->
            (IF o \in BagToSet(reads) THEN reads[o] ELSE 0)
          + (IF [o EXCEPT !.old = FALSE] \in BagToSet(reads)
             THEN reads[[o EXCEPT !.old = FALSE]] ELSE 0)]

\* getTreasuryBalanceRoute up to its first suspension that matters: the config
\* checks, the token address, and the SELECT when the store is to be asked.
TreasuryStart(q, addr) ==
    LET req == [addr |-> addr, force |-> ForceRefresh(q), pc |-> "chain",
                raw |-> 0, old |-> FALSE,
                stored |-> IF ~UseStored(q) THEN "notasked"
                           ELSE IF StoredRows(addr) # {} THEN "row" ELSE "norow"]
    IN
    IF ~treasuryConfigured THEN
        /\ AnswerError(503, "config", [req EXCEPT !.stored = "notasked"], FALSE, FALSE)
        /\ UNCHANGED <<treasuryRows, treasuryReads, lastPlain>>
    ELSE
        \/ \* TEST_USDC_ADDRESS is unset and contract.token() fails
           /\ AnswerError(503, "token", [req EXCEPT !.stored = "notasked"], FALSE, FALSE)
           /\ UNCHANGED <<treasuryRows, treasuryReads, lastPlain>>
        \/ \* initDb or the SELECT fails: the outer catch answers
           /\ UseStored(q)
           /\ AnswerError(500, "dbread", [req EXCEPT !.stored = "notasked"], FALSE, FALSE)
           /\ UNCHANGED <<treasuryRows, treasuryReads, lastPlain>>
        \/ /\ UseStored(q)
           /\ StoredRows(addr) # {}
           /\ \E row \in StoredRows(addr) :
                 /\ Answer(200, "done", "database", req, FALSE, FALSE,
                           row.balance_raw, row.balance_formatted)
                 /\ PlainAnswered(req, row.balance_formatted)
           /\ treasuryReads' = Aged(treasuryReads)
           /\ UNCHANGED treasuryRows
        \/ /\ ~(UseStored(q) /\ StoredRows(addr) # {})
           /\ BagCardinality(treasuryReads) < MaxReads
           /\ treasuryReads' = treasuryReads (+) SetToBag({req})
           /\ UNCHANGED <<treasuryRows, lastRead, lastPlain>>

TreasuryRequest ==
    /\ treasuryCount < MaxRequests
    /\ treasuryCount' = treasuryCount + 1
    /\ \E q \in RefreshValues : \E addr \in TreasuryAddrs : TreasuryStart(q, addr)
    /\ UNCHANGED <<treasuryConfigured, chainBalance>>
    /\ UNCHANGED <<waitVars, execVars, jobVars, fetchVars, pipeVars, moreVars>>

\* `await token.balanceOf(settlementAddress)` returns or throws; without a store
\* the handler then answers.
TreasuryChainRead ==
    /\ \E req \in BagToSet(treasuryReads) :
          /\ req.pc = "chain"
          /\ \/ /\ AnswerError(500, "chain", req, TRUE, FALSE)
                /\ treasuryReads' = treasuryReads (-) SetToBag({req})
                /\ UNCHANGED lastPlain
             \/ /\ dbConfigured
                /\ treasuryReads' = (treasuryReads (-) SetToBag({req}))
                      (+) SetToBag({[req EXCEPT !.pc = "write", !.raw = chainBalance]})
                /\ UNCHANGED <<lastRead, lastPlain>>
             \/ /\ ~dbConfigured
                /\ Answer(200, "done", "chain", req, TRUE, FALSE,
                          NatToStr(chainBalance), formatUsdc(chainBalance))
                /\ IF req.force
                   THEN /\ treasuryReads' = treasuryReads (-) SetToBag({req})
                        /\ UNCHANGED lastPlain
                   ELSE /\ treasuryReads' = Aged(treasuryReads (-) SetToBag({req}))
                        /\ PlainAnswered(req, formatUsdc(chainBalance))
    /\ UNCHANGED <<treasuryConfigured, chainBalance, treasuryRows, treasuryCount>>
    /\ UNCHANGED <<waitVars, execVars, jobVars, fetchVars, pipeVars, moreVars>>

\* `await db.setTreasuryBalance(...)` returns, and the handler answers from the
\* chain read; or it throws, and the outer catch answers.
TreasuryWrite ==
    /\ \E req \in BagToSet(treasuryReads) :
          /\ req.pc = "write"
          /\ \/ /\ treasuryRows' = setTreasuryBalance(req.addr, req.raw, formatUsdc(req.raw))
                /\ Answer(200, "done", "chain", req, TRUE, FALSE,
                          NatToStr(req.raw), formatUsdc(req.raw))
                /\ IF req.force
                   THEN /\ treasuryReads' = treasuryReads (-) SetToBag({req})
                        /\ lastPlain' = [lastPlain EXCEPT !.noWrite = FALSE]
                   ELSE /\ treasuryReads' = Aged(treasuryReads (-) SetToBag({req}))
                        /\ PlainAnswered(req, formatUsdc(req.raw))
             \/ /\ AnswerError(500, "write", req, TRUE, TRUE)
                /\ treasuryReads' = treasuryReads (-) SetToBag({req})
                /\ UNCHANGED <<treasuryRows, lastPlain>>
    /\ UNCHANGED <<treasuryConfigured, chainBalance, treasuryCount>>
    /\ UNCHANGED <<waitVars, execVars, jobVars, fetchVars, pipeVars, moreVars>>

\* A deposit or a settlement changes the balance of the contract.
ChainChange ==
    /\ \E v \in ChainValues \ {chainBalance} : chainBalance' = v
    /\ lastPlain' = [lastPlain EXCEPT !.chainSame = FALSE]
    /\ UNCHANGED <<treasuryConfigured, treasuryRows, treasuryReads, treasuryCount,
                   lastRead>>
    /\ UNCHANGED <<waitVars, execVars, jobVars, fetchVars, pipeVars, moreVars>>

NextTreasury ==
    \/ TreasuryRequest
    \/ TreasuryChainRead
    \/ TreasuryWrite
    \/ ChainChange


\* ---- claims about the treasury balance read ----

\* C13: a read answered 200 has source database exactly when a store is
\* configured, the request does not force a refresh and the SELECT found a row;
\* such a read did no chain read and the table holds a row for the address; every
\* other read answered 200 has source chain and read the chain; and no request on
\* its way to the chain found a row it was allowed to use.
C13_StoredRowPolicy ==
    /\ lastRead.status = 200 =>
          /\ lastRead.source \in {"database", "chain"}
          /\ (lastRead.source = "database")
                <=> (dbConfigured /\ ~lastRead.force /\ lastRead.stored = "row")
          /\ lastRead.source = "database"
                => (~lastRead.chainRead /\ StoredRows(lastRead.addr) # {})
          /\ lastRead.source = "chain" => lastRead.chainRead
    /\ \A req \in BagToSet(treasuryReads) :
          ~(dbConfigured /\ ~req.force /\ req.stored = "row")

\* C13 witness: a process whose address is spelled in mixed case was answered
\* from the stored row.
C13_Witness ==
    /\ lastRead.status = 200
    /\ lastRead.source = "database"
    /\ lastRead.addr = ADDR_MIXED
    /\ ~lastRead.chainRead

C15_RefreshOverwritesRow ==
    /\ []((lastRead.force /\ lastRead.stage \notin {"config", "token"})
            => (lastRead.chainRead /\ lastRead.stored = "notasked"
                  /\ lastRead.source # "database"))
    /\ [](\A r1 \in treasuryRows : \A r2 \in treasuryRows :
            /\ r1.settlement_address = ToLowerCase(r1.settlement_address)
            /\ r1.settlement_address = r2.settlement_address => r1 = r2)
    /\ [][(TreasuryWrite /\ lastRead'.status = 200 /\ lastRead'.force)
            => {r \in treasuryRows' :
                    r.settlement_address = ToLowerCase(lastRead'.addr)} =
                  {[settlement_address |-> ToLowerCase(lastRead'.addr),
                    balance_raw |-> lastRead'.balanceRaw,
                    balance_formatted |-> lastRead'.balanceFormatted]}]_vars
    /\ [][(TreasuryRequest /\ dbConfigured
             /\ lastRead.force /\ lastRead.status = 200
             /\ ~lastRead'.force /\ lastRead'.status = 200)
            => /\ lastRead'.source = "database"
               /\ lastRead'.balanceRaw = lastRead.balanceRaw
               /\ lastRead'.balanceFormatted = lastRead.balanceFormatted]_vars

\* C15 witness: a refresh read was answered with a balance other than the one the
\* store had given to an earlier read, and the row now holds the new balance.
C15_Witness ==
    /\ lastRead.force
    /\ lastRead.status = 200
    /\ dbConfigured
    /\ lastPlain.formatted # <<>>
    /\ lastPlain.formatted # lastRead.balanceFormatted
    /\ \E r \in treasuryRows : r.balance_formatted = lastRead.balanceFormatted

\* C16: a read whose chain read succeeded and whose write to the store failed is
\* answered 200 with source chain.
C16_PersistFailureDoesNotFailRead ==
    lastRead.writeFailed => (lastRead.status = 200 /\ lastRead.source = "chain")

(***************************************************************************)
(* Result Fetcher: fetchTaskResult and GET /settlement/result/:taskId      *)
(*                                                                         *)
(* The function keeps no state between calls; a call is one step.  The     *)
(* text of result.json is a sequence of JSON tokens.                       *)
(***************************************************************************)

\* A JS string that is only compared as a whole.
Sym(s) == [t |-> "sym", v |-> s]

\* ---- JSON values and JSON.parse ----

JNull      == [k |-> "null", s |-> "", items |-> <<>>]
JStr(s)    == [k |-> "str", s |-> s, items |-> <<>>]
JArr(xs)   == [k |-> "arr", s |-> "", items |-> xs]
JObj(ms)   == [k |-> "obj", s |-> "", items |-> ms]
Member(key, val) == [key |-> key, val |-> val]

\* tokens: punctuation, the literal null, a string literal, anything else
Tk(k)  == [k |-> k, s |-> ""]
TkS(s) == [k |-> "str", s |-> s]

ParseFail == [ok |-> FALSE, val |-> JNull, rest |-> <<>>]
ParseOk(v, rest) == [ok |-> TRUE, val |-> v, rest |-> rest]

RECURSIVE ParseValue(_), ParseItems(_, _, _), ParseMembers(_, _, _)

\* value := null | string | array | object
ParseValue(ts) ==
    IF ts = <<>> THEN ParseFail
    ELSE CASE Head(ts).k = "null" -> ParseOk(JNull, Tail(ts))
           [] Head(ts).k = "str"  -> ParseOk(JStr(Head(ts).s), Tail(ts))
           [] Head(ts).k = "["    -> ParseItems(Tail(ts), <<>>, TRUE)
           [] Head(ts).k = "{"    -> ParseMembers(Tail(ts), <<>>, TRUE)
           [] OTHER               -> ParseFail

\* array := [ ] | [ value (, value)* ]
ParseItems(ts, acc, first) ==
    IF ts = <<>> THEN ParseFail
    ELSE IF first /\ Head(ts).k = "]" THEN ParseOk(JArr(acc), Tail(ts))
    ELSE LET v == ParseValue(ts)
         IN  IF ~v.ok \/ v.rest = <<>> THEN ParseFail
             ELSE IF Head(v.rest).k = "]"
                  THEN ParseOk(JArr(Append(acc, v.val)), Tail(v.rest))
             ELSE IF Head(v.rest).k = ","
                  THEN ParseItems(Tail(v.rest), Append(acc, v.val), FALSE)
             ELSE ParseFail

\* object := { } | { string : value (, string : value)* }
ParseMembers(ts, acc, first) ==
    IF ts = <<>> THEN ParseFail
    ELSE IF first /\ Head(ts).k = "}" THEN ParseOk(JObj(acc), Tail(ts))
    ELSE IF Len(ts) < 2 \/ ts[1].k # "str" \/ ts[2].k # ":" THEN ParseFail
    ELSE LET v == ParseValue(SubSeq(ts, 3, Len(ts)))
             m == Append(acc, Member(ts[1].s, v.val))
         IN  IF ~v.ok \/ v.rest = <<>> THEN ParseFail
             ELSE IF Head(v.rest).k = "}" THEN ParseOk(JObj(m), Tail(v.rest))
             ELSE IF Head(v.rest).k = "," THEN ParseMembers(Tail(v.rest), m, FALSE)
             ELSE ParseFail

\* JSON.parse that gives null for a text it cannot decode.
JsonParseLenient(ts) ==
    IF ParseValue(ts).ok /\ ParseValue(ts).rest = <<>>
    THEN ParseValue(ts)
    ELSE ParseOk(JNull, <<>>)

\* JSON.parse(text): the value, or a SyntaxError (ok = FALSE)
JsonParse(ts) ==
    IF ParseValue(ts).ok /\ ParseValue(ts).rest = <<>>
    THEN ParseValue(ts)
    ELSE ParseFail

\* value?.[key]: the last member with that key decides
HasKey(v, key) == v.k = "obj" /\ \E i \in 1..Len(v.items) : v.items[i].key = key

GetKey(v, key) ==
    LET i == CHOOSE i \in 1..Len(v.items) :
                /\ v.items[i].key = key
                /\ \A j \in (i + 1)..Len(v.items) : v.items[j].key # key
    IN  v.items[i].val

\* ---- the inputs: what the iExec network answers ----

\* task.show(taskId): it throws, or gives no task, or a task with a status
ShowFails == [shown |-> FALSE, isNull |-> FALSE, status |-> UndefV]
NoTask    == [shown |-> TRUE, isNull |-> TRUE, status |-> UndefV]
TaskWith(status) == [shown |-> TRUE, isNull |-> FALSE, status |-> status]

TaskStatuses ==
    {Num(0), Num(1), Num(2), Num(3), Num(4),
     Sym("COMPLETED"), Sym("completed"), Sym("3"), Sym("ACTIVE"), Sym("FAILED"),
     UndefV, NullV}

Tasks == {ShowFails, NoTask} \cup {TaskWith(st) : st \in TaskStatuses}

\* texts of result.json that decode
TEXT_FULL ==
    <<Tk("{"), TkS("payouts"), Tk(":"), Tk("["), Tk("{"), TkS("recipient"), Tk(":"),
      TkS("0xab"), Tk(","), TkS("amount"), Tk(":"), TkS("5"), Tk("}"), Tk("]"),
      Tk(","), TkS("tee_attestation"), Tk(":"), TkS("0x0a"), Tk("}")>>
TEXT_NO_ATTESTATION == <<Tk("{"), TkS("payouts"), Tk(":"), Tk("["), Tk("]"), Tk("}")>>
TEXT_NO_PAYOUTS == <<Tk("{"), TkS("tee_attestation"), Tk(":"), TkS("0x0a"), Tk("}")>>
TEXT_PAYOUTS_NOT_LIST ==
    <<Tk("{"), TkS("payouts"), Tk(":"), TkS("none"), Tk(","),
      TkS("tee_attestation"), Tk(":"), TkS("0x0a"), Tk("}")>>
TEXT_EMPTY_OBJECT == <<Tk("{"), Tk("}")>>
TEXT_NULL == <<Tk("null")>>
TEXT_ARRAY == <<Tk("["), Tk("null"), Tk(","), TkS("x"), Tk("]")>>

\* texts of result.json that do not decode
TEXT_NOTHING == <<>>
TEXT_UNCLOSED == <<Tk("{"), TkS("payouts"), Tk(":"), Tk("["), Tk("]")>>
TEXT_TRAILING_COMMA == <<Tk("{"), TkS("payouts"), Tk(":"), Tk("["), Tk("]"), Tk(","), Tk("}")>>
TEXT_GARBAGE == <<Tk("word")>>
TEXT_TWO_VALUES == <<Tk("{"), Tk("}"), Tk("{"), Tk("}")>>

GoodTexts ==
    {TEXT_FULL, TEXT_NO_ATTESTATION, TEXT_NO_PAYOUTS, TEXT_PAYOUTS_NOT_LIST,
     TEXT_EMPTY_OBJECT, TEXT_NULL, TEXT_ARRAY}

BadTexts ==
    {TEXT_NOTHING, TEXT_UNCLOSED, TEXT_TRAILING_COMMA, TEXT_GARBAGE, TEXT_TWO_VALUES}

\* iexec.task.fetchResults(taskId): the download fails, or the bytes are no zip
\* archive, or an archive without result.json, or one with it
Archive(download, zip, entry, text) ==
    [download |-> download, zip |-> zip, entry |-> entry, text |-> text]

Archives ==
    {Archive(FALSE, FALSE, FALSE, <<>>), Archive(TRUE, FALSE, FALSE, <<>>),
     Archive(TRUE, TRUE, FALSE, <<>>)}
    \cup {Archive(TRUE, TRUE, TRUE, t) : t \in GoodTexts \cup BadTexts}

\* ---- the function ----

Return(status, result, downloads) ==
    [kind |-> "return", status |-> status, result |-> result, error |-> "",
     downloads |-> downloads]

Throw(error, downloads) ==
    [kind |-> "throw", status |-> UndefV, result |-> JNull, error |-> error,
     downloads |-> downloads]

\* A completed test that accepts every numeric status from 3 on.
IsCompletedFrom3(status) ==
    (status.t = "num" /\ status.v >= 3) \/ status = Sym("COMPLETED")

\* const isCompleted = status === 3 || status === "COMPLETED"
IsCompleted(status) == status = Num(3) \/ status = Sym("COMPLETED")

fetchTaskResult(task, archive) ==
    LET status == IF task.isNull THEN UndefV ELSE task.status
    IN  IF ~task.shown THEN Throw("task.show failed", 0)
        ELSE IF ~IsCompleted(status) THEN
            Return(IF status \in {UndefV, NullV} THEN Sym("UNKNOWN") ELSE status,
                   JNull, 0)
        ELSE IF ~archive.download THEN Throw("fetchResults failed", 1)
        ELSE IF ~archive.zip THEN Throw("Invalid or unsupported zip format", 1)
        ELSE IF ~archive.entry THEN Throw("result.json not found in task output", 1)
        ELSE IF ~JsonParse(archive.text).ok THEN Throw("SyntaxError", 1)
        ELSE Return(Sym("COMPLETED"), JsonParse(archive.text).val, 1)

NoFetch ==
    [via |-> "none", task |-> ShowFails, archive |-> Archive(FALSE, FALSE, FALSE, <<>>),
     out |-> Throw("", 0), http |-> 0]

FetchInit == fetched = NoFetch

\* A direct call, as runSettlementAndWait and postWait make it.
FetchCall ==
    /\ \E task \in Tasks : \E archive \in Archives :
          fetched' = [via |-> "call", task |-> task, archive |-> archive,
                      out |-> fetchTaskResult(task, archive), http |-> 0]
    /\ UNCHANGED <<waitVars, execVars, jobVars, treasuryVars, pipeVars, moreVars>>

\* getResult(req, res): 400 without taskId, 200 with what fetchTaskResult
\* returned, 500 with the message of what it threw.
GetResult ==
    /\ \E hasTaskId \in BOOLEAN : \E task \in Tasks : \E archive \in Archives :
          LET out == fetchTaskResult(task, archive)
          IN  fetched' =
                IF ~hasTaskId
                THEN [via |-> "route", task |-> ShowFails,
                      archive |-> Archive(FALSE, FALSE, FALSE, <<>>),
                      out |-> Throw("", 0), http |-> 400]
                ELSE [via |-> "route", task |-> task, archive |-> archive,
                      out |-> out,
                      http |-> IF out.kind = "return" THEN 200 ELSE 500]
    /\ UNCHANGED <<waitVars, execVars, jobVars, treasuryVars, pipeVars, moreVars>>

NextFetch ==
    \/ FetchCall
    \/ GetResult


\* ---- claims about the Result Fetcher ----

\* The task came back from task.show with this status (undefined without a task).
ShownStatus == IF fetched.task.isNull THEN UndefV ELSE fetched.task.status

Called == fetched.via # "none" /\ fetched.http # 400 /\ fetched.task.shown

\* C17: for every status other than 3 and "COMPLETED", a missing one included,
\* the call returns result null without throwing and without a download; and a
\* call that returns a non-null result returns status COMPLETED.
C17_NullUnlessCompleted ==
    Called =>
        /\ ShownStatus \notin {Num(3), Sym("COMPLETED")}
              => /\ fetched.out.kind = "return"
                 /\ fetched.out.result = JNull
                 /\ fetched.out.downloads = 0
        /\ (fetched.out.kind = "return" /\ fetched.out.result # JNull)
              => /\ fetched.out.status = Sym("COMPLETED")
                 /\ ShownStatus \in {Num(3), Sym("COMPLETED")}

\* C17 witness: a task with the numeric status 4 was answered with result null
\* and its status, without a download.
C17_Witness ==
    /\ Called
    /\ ShownStatus = Num(4)
    /\ fetched.out = Return(Num(4), JNull, 0)

\* C18: the status a call returns is COMPLETED or OTHER.
C18_StatusInClosedEnum ==
    (Called /\ fetched.out.kind = "return")
        => fetched.out.status \in {Sym("COMPLETED"), Sym("OTHER")}

\* C19: for a completed task whose archive was downloaded and opened, the call
\* throws when the archive has no result.json and when the text of result.json
\* does not decode; it made one download; it returned nothing.
C19_FormatErrors ==
    (Called /\ ShownStatus \in {Num(3), Sym("COMPLETED")}
        /\ fetched.archive.download /\ fetched.archive.zip
        /\ (~fetched.archive.entry \/ fetched.archive.text \in BadTexts))
    => /\ fetched.out.kind = "throw"
       /\ fetched.out.error = IF ~fetched.archive.entry
                              THEN "result.json not found in task output"
                              ELSE "SyntaxError"
       /\ fetched.out.downloads = 1
       /\ fetched.via = "route" => fetched.http = 500

\* C19 witness: result.json ends before its object is closed, and the route
\* answered 500.
C19_Witness ==
    /\ Called
    /\ fetched.via = "route"
    /\ ShownStatus = Num(3)
    /\ fetched.archive = Archive(TRUE, TRUE, TRUE, TEXT_UNCLOSED)
    /\ fetched.out = Throw("SyntaxError", 1)
    /\ fetched.http = 500

\* C20: a result returned with status COMPLETED is an object with a payouts list
\* and an attestation.
C20_ResultHasPayoutsAndAttestation ==
    (Called /\ fetched.out.kind = "return" /\ fetched.out.status = Sym("COMPLETED"))
        => /\ HasKey(fetched.out.result, "payouts")
           /\ GetKey(fetched.out.result, "payouts").k = "arr"
           /\ HasKey(fetched.out.result, "tee_attestation")

(***************************************************************************)
(* Order Assembler and pipeline: runSettlementTask, runSettlementAndWait,  *)
(* POST /settlement/run, POST /settlement/wait/:taskId                     *)
(*                                                                         *)
(* One request is followed from await to await; pipeCalls is the list of   *)
(* calls it has made to the compute network, to waitForTask and to         *)
(* fetchTaskResult, each with the way it ended.                            *)
(***************************************************************************)

\* Number of requests the model sends.
MaxPipeRequests == 2

\* An identifier missing from the request.
MissingId == 0 - 1

\* An identifier no deal of the network carries.
UnknownId == 0 - 2

NoIds == [dealId |-> MissingId, taskId |-> MissingId]

\* iexec.deal.computeTaskId(dealid, 0): a function of the deal.
ComputeTaskId(dealid) == 10 * dealid

\* s.startsWith(p)
StartsWith(s, p) == Len(s) >= Len(p) /\ SubSeq(s, 1, Len(p)) = p

URL_HTTPS == <<"h", "t", "t", "p", "s", ":", "/", "/", "x">>
URL_HTTP_PAD == <<" ", "h", "t", "t", "p", ":", "/", "/", "x">>
URL_FTP == <<"f", "t", "p", ":", "/", "/", "x">>

\* postRun: datasetUrl must be a non-empty string that, trimmed, starts with
\* http:// or https://
DatasetUrlError(url) ==
    IF url.t # "str" \/ url.v = <<>> THEN "Missing or invalid datasetUrl"
    ELSE IF ~StartsWith(Trim(url.v), <<"h", "t", "t", "p", ":", "/", "/">>)
            /\ ~StartsWith(Trim(url.v), <<"h", "t", "t", "p", "s", ":", "/", "/">>)
         THEN "datasetUrl must be an HTTP(S) URL"
    ELSE ""

PipeRequests ==
    [handler : {"run", "runWait"},
     url : {UndefV, Str(<<>>), Str(URL_FTP), Str(URL_HTTPS), Str(URL_HTTP_PAD)},
     taskId : {MissingId}, dealId : {MissingId}]
    \cup
    [handler : {"wait"}, url : {UndefV},
     taskId : {MissingId, ComputeTaskId(1), UnknownId},
     dealId : {MissingId, 1, UnknownId}]

NoReq == [handler |-> "none", url |-> UndefV, taskId |-> MissingId, dealId |-> MissingId]

NoOut ==
    [kind |-> "none", http |-> 0, error |-> "", ids |-> NoIds,
     status |-> UndefV, result |-> JNull]

PipeInit ==
    /\ pipePc = "idle"
    /\ pipeReq = NoReq
    /\ pipeCalls = <<>>
    /\ pipeIds = NoIds
    /\ pipeOut = NoOut
    /\ matched = {}
    /\ pipeCount = 0

\* A call made by the request and how it ended.
CallRec(name, res) == [name |-> name, res |-> res]

\* The calls of the request so far, followed by one more.
After(name, res) == Append(pipeCalls, CallRec(name, res))

\* Two calls made one after the other in the same step, the second only when
\* the first returned.
AfterTwo(first, second, res) ==
    IF res = "throwFirst" THEN After(first, "throw")
    ELSE Append(After(first, "ok"), CallRec(second, IF res = "ok" THEN "ok" ELSE "throw"))

\* The route's catch: res.status(500).json({ error: err.message || ... })
PipeThrow(error) ==
    /\ pipeOut' = [kind |-> "error", http |-> 500, error |-> error, ids |-> NoIds,
                   status |-> UndefV, result |-> JNull]
    /\ pipePc' = "done"

\* res.status(400).json(...) before anything is called
PipeReject(error) ==
    /\ pipeOut' = [kind |-> "error", http |-> 400, error |-> error, ids |-> NoIds,
                   status |-> UndefV, result |-> JNull]
    /\ pipePc' = "done"

PipeAnswer(ids, status, result) ==
    /\ pipeOut' = [kind |-> "ok", http |-> 200, error |-> "", ids |-> ids,
                   status |-> status, result |-> result]
    /\ pipePc' = "done"

\* postRun and postWait up to their first await.
PipeStart ==
    /\ pipePc \in {"idle", "done"}
    /\ pipeCount < MaxPipeRequests
    /\ pipeCount' = pipeCount + 1
    /\ pipeCalls' = <<>>
    /\ \E req \in PipeRequests :
          /\ pipeReq' = req
          /\ IF req.handler = "wait"
             THEN IF req.taskId = MissingId \/ req.dealId = MissingId
                  THEN /\ PipeReject("Missing taskId or dealId")
                       /\ pipeIds' = NoIds
                  ELSE /\ pipePc' = "observe"
                       /\ pipeIds' = [dealId |-> req.dealId, taskId |-> req.taskId]
                       /\ pipeOut' = NoOut
             ELSE IF DatasetUrlError(req.url) # ""
                  THEN /\ PipeReject(DatasetUrlError(req.url))
                       /\ pipeIds' = NoIds
                  ELSE /\ pipePc' = "checkApp"
                       /\ pipeIds' = NoIds
                       /\ pipeOut' = NoOut
    /\ UNCHANGED matched
    /\ UNCHANGED <<waitVars, execVars, jobVars, treasuryVars, fetchVars, moreVars>>

\* if (!(await iexec.app.checkDeployedApp(appAddress))) throw ...
PipeCheckApp ==
    /\ pipePc = "checkApp"
    /\ \E res \in {"true", "false", "throw"} :
          /\ pipeCalls' = After("checkDeployedApp", res)
          /\ IF res = "true" THEN pipePc' = "appOrder" /\ UNCHANGED pipeOut
             ELSE IF res = "false" THEN PipeThrow("No iApp found")
             ELSE PipeThrow("NetworkError")
    /\ UNCHANGED <<pipeReq, pipeIds, matched, pipeCount>>
    /\ UNCHANGED <<waitVars, execVars, jobVars, treasuryVars, fetchVars, moreVars>>

\* createApporder, then signApporder
PipeAppOrder ==
    /\ pipePc = "appOrder"
    /\ \E res \in {"ok", "throwFirst", "throwSecond"} :
          /\ pipeCalls' = AfterTwo("createApporder", "signApporder", res)
          /\ IF res = "ok" THEN pipePc' = "orderbook" /\ UNCHANGED pipeOut
             ELSE PipeThrow("NetworkError")
    /\ UNCHANGED <<pipeReq, pipeIds, matched, pipeCount>>
    /\ UNCHANGED <<waitVars, execVars, jobVars, treasuryVars, fetchVars, moreVars>>

\* An order book that yields an order even when it is empty.
OrderMissingNever(res) == FALSE

\* const workerpoolorder = workerpoolOrderbook.orders[0]?.order;
\* if (!workerpoolorder) ...
OrderMissing(res) == res = "empty"

\* fetchWorkerpoolOrderbook and the test of its first order
PipeOrderbook ==
    /\ pipePc = "orderbook"
    /\ \E res \in {"one", "empty", "throw"} :
          /\ pipeCalls' = After("fetchWorkerpoolOrderbook", res)
          /\ IF res = "throw" THEN PipeThrow("NetworkError")
             ELSE IF OrderMissing(res)
                  THEN PipeThrow("No workerpool order found. Try again later.")
             ELSE pipePc' = "requestOrder" /\ UNCHANGED pipeOut
    /\ UNCHANGED <<pipeReq, pipeIds, matched, pipeCount>>
    /\ UNCHANGED <<waitVars, execVars, jobVars, treasuryVars, fetchVars, moreVars>>

\* createRequestorder, then signRequestorder
PipeRequestOrder ==
    /\ pipePc = "requestOrder"
    /\ \E res \in {"ok", "throwFirst", "throwSecond"} :
          /\ pipeCalls' = AfterTwo("createRequestorder", "signRequestorder", res)
          /\ IF res = "ok" THEN pipePc' = "match" /\ UNCHANGED pipeOut
             ELSE PipeThrow("NetworkError")
    /\ UNCHANGED <<pipeReq, pipeIds, matched, pipeCount>>
    /\ UNCHANGED <<waitVars, execVars, jobVars, treasuryVars, fetchVars, moreVars>>

\* matchOrders, then computeTaskId; runSettlementTask returns { dealId, taskId }.
\* postRun without wait answers with them; runSettlementAndWait goes on.
PipeMatch ==
    /\ pipePc = "match"
    /\ \E res \in {"ok", "throwFirst", "throwSecond"} :
          LET dealid == Cardinality(matched) + 1
              ids == [dealId |-> dealid, taskId |-> ComputeTaskId(dealid)]
          IN  /\ pipeCalls' = AfterTwo("matchOrders", "computeTaskId", res)
              /\ matched' = IF res = "throwFirst" THEN matched ELSE matched \cup {ids}
              /\ IF res # "ok"
                 THEN PipeThrow("NetworkError") /\ UNCHANGED pipeIds
                 ELSE /\ pipeIds' = ids
                      /\ IF pipeReq.handler = "run"
                         THEN PipeAnswer(ids, UndefV, JNull)
                         ELSE pipePc' = "observe" /\ UNCHANGED pipeOut
    /\ UNCHANGED <<pipeReq, pipeCount>>
    /\ UNCHANGED <<waitVars, execVars, jobVars, treasuryVars, fetchVars, moreVars>>

\* The ways the promise of waitForTask settles.
ObserveOutcomes == {"resolved", "streamError", "timeout", "obsTaskFailed"}

ObserveError(res) ==
    CASE res = "timeout" -> "Task observation timeout"
      [] res = "streamError" -> "stream error"
      [] OTHER -> "obsTask failed"

\* An await that goes on whatever the promise did.
ObserveResolvedAlways(res) == TRUE

\* await waitForTask(taskId, dealId): the next statement runs only when the
\* promise resolved; a rejection is thrown at the await.
ObserveResolved(res) == res = "resolved"

PipeObserve ==
    /\ pipePc = "observe"
    /\ \E res \in ObserveOutcomes :
          /\ pipeCalls' = After("waitForTask", res)
          /\ IF ObserveResolved(res) THEN pipePc' = "fetch" /\ UNCHANGED pipeOut
             ELSE PipeThrow(ObserveError(res))
    /\ UNCHANGED <<pipeReq, pipeIds, matched, pipeCount>>
    /\ UNCHANGED <<waitVars, execVars, jobVars, treasuryVars, fetchVars, moreVars>>

\* What the task and its archive may be when the result is fetched.
PipeTasks == {ShowFails, TaskWith(Num(3)), TaskWith(Num(1))}

PipeArchives ==
    {Archive(TRUE, TRUE, TRUE, TEXT_FULL), Archive(TRUE, TRUE, FALSE, <<>>)}

\* await fetchTaskResult(taskId), and the answer: runSettlementAndWait returns
\* { dealId, taskId, result }, postWait answers { taskId, status, result }.
PipeFetch ==
    /\ pipePc = "fetch"
    /\ \E task \in PipeTasks : \E archive \in PipeArchives :
          LET out == fetchTaskResult(task, archive)
          IN  /\ pipeCalls' = After("fetchTaskResult", out.kind)
              /\ IF out.kind = "throw" THEN PipeThrow(out.error)
                 ELSE IF pipeReq.handler = "wait"
                      THEN PipeAnswer([pipeIds EXCEPT !.dealId = MissingId],
                                      out.status, out.result)
                 ELSE PipeAnswer(pipeIds, UndefV, out.result)
    /\ UNCHANGED <<pipeReq, pipeIds, matched, pipeCount>>
    /\ UNCHANGED <<waitVars, execVars, jobVars, treasuryVars, fetchVars, moreVars>>

NextPipe ==
    \/ PipeStart
    \/ PipeCheckApp
    \/ PipeAppOrder
    \/ PipeOrderbook
    \/ PipeRequestOrder
    \/ PipeMatch
    \/ PipeObserve
    \/ PipeFetch

\* ---- claims about the pipeline ----

\* Position of the call name in the calls of the request (0 when not made).
CallAt(name) ==
    IF \E i \in 1..Len(pipeCalls) : pipeCalls[i].name = name
    THEN CHOOSE i \in 1..Len(pipeCalls) : pipeCalls[i].name = name
    ELSE 0

Made(name) == CallAt(name) > 0

ResOf(name) == pipeCalls[CallAt(name)].res

\* The result is fetched only after the observation resolved, and a rejected
\* observation ends the request with its error and without a fetch.
FetchOnlyAfterResolved ==
    /\ Made("fetchTaskResult") =>
          /\ Made("waitForTask")
          /\ CallAt("waitForTask") < CallAt("fetchTaskResult")
          /\ ResOf("waitForTask") = "resolved"
    /\ (Made("waitForTask") /\ ResOf("waitForTask") # "resolved") =>
          /\ ~Made("fetchTaskResult")
          /\ pipePc = "done"
          /\ pipeOut.kind = "error"
          /\ pipeOut.error = ObserveError(ResOf("waitForTask"))
          /\ pipeOut.result = JNull

\* In the run-and-wait pipeline the observation starts only after the match
\* returned the identifiers, and a failed order matching ends the request
\* with nothing observed or fetched.
PipelineObservesAfterMatch ==
    pipeReq.handler \in {"run", "runWait"} =>
        /\ Made("waitForTask") =>
              /\ pipeReq.handler = "runWait"
              /\ Made("computeTaskId")
              /\ ResOf("matchOrders") = "ok"
              /\ ResOf("computeTaskId") = "ok"
              /\ CallAt("computeTaskId") < CallAt("waitForTask")
              /\ pipeIds \in matched
        /\ (\E i \in 1..Len(pipeCalls) :
               /\ pipeCalls[i].name \notin {"waitForTask", "fetchTaskResult"}
               /\ pipeCalls[i].res \in {"throw", "false", "empty"})
              => /\ ~Made("waitForTask")
                 /\ ~Made("fetchTaskResult")
                 /\ pipeOut.kind = "error"
                 /\ pipeOut.ids = NoIds

\* C24 as stated: in runSettlementAndWait and in postWait alike, the result is
\* fetched only after the observation resolved, and the task is observed only
\* after an order match produced its (dealId, taskId).
C24_ObserveAfterMatchEverywhere ==
    /\ FetchOnlyAfterResolved
    /\ PipelineObservesAfterMatch
    /\ (pipeReq.handler = "wait" /\ Made("waitForTask")) => pipeIds \in matched

\* C24, amended: the fetch follows a resolved observation in both; the
\* observation follows the match in runSettlementAndWait, while postWait
\* observes whatever taskId and dealId the request carries, provided both are
\* present.
C24_FetchAfterObserveAfterMatch ==
    /\ FetchOnlyAfterResolved
    /\ PipelineObservesAfterMatch
    /\ (pipeReq.handler = "wait" /\ Made("waitForTask")) =>
          /\ pipeReq.taskId # MissingId
          /\ pipeReq.dealId # MissingId
          /\ pipeIds = [dealId |-> pipeReq.dealId, taskId |-> pipeReq.taskId]
    /\ (pipeReq.handler = "wait" /\ pipePc = "done"
        /\ (pipeReq.taskId = MissingId \/ pipeReq.dealId = MissingId))
          => (pipeCalls = <<>> /\ pipeOut.http = 400)

\* C24 witness: a run-and-wait request whose observation timed out has ended
\* with that error, after a successful match.
C24_Witness ==
    /\ pipeReq.handler = "runWait"
    /\ Made("waitForTask")
    /\ ResOf("waitForTask") = "timeout"
    /\ pipeOut.error = "Task observation timeout"
    /\ pipeIds \in matched

\* C25: a settlement transaction is sent to the contract only after
\* fetchTaskResult has returned the result of a completed task.
C25_ExecuteOnlyAfterResult ==
    (pendingTx # EmptyBag \/ \E a \in AttBytes : chainLog[a] > 0)
        => /\ Called
           /\ fetched.out.kind = "return"
           /\ fetched.out.result # JNull

\* C26: matchOrders is called only after checkDeployedApp returned true and the
\* order book returned an order; an undeployed application ends the call before
\* any order is created or signed, an empty order book before a request order
\* is created and before a match; no call is made twice, and either failure
\* reaches the caller as thrown, with no identifiers.
C26_MatchOnlyWithAppAndOrder ==
    /\ Made("matchOrders") =>
          /\ Made("checkDeployedApp") /\ ResOf("checkDeployedApp") = "true"
          /\ Made("fetchWorkerpoolOrderbook")
          /\ ResOf("fetchWorkerpoolOrderbook") = "one"
          /\ CallAt("fetchWorkerpoolOrderbook") < CallAt("matchOrders")
    /\ (Made("checkDeployedApp") /\ ResOf("checkDeployedApp") = "false") =>
          /\ pipeCalls = <<CallRec("checkDeployedApp", "false")>>
          /\ pipeOut.kind = "error"
          /\ pipeOut.error = "No iApp found"
          /\ pipeOut.ids = NoIds
          /\ pipeIds = NoIds
    /\ (Made("fetchWorkerpoolOrderbook") /\ ResOf("fetchWorkerpoolOrderbook") = "empty") =>
          /\ pipeCalls[Len(pipeCalls)].name = "fetchWorkerpoolOrderbook"
          /\ ~Made("createRequestorder")
          /\ ~Made("signRequestorder")
          /\ ~Made("matchOrders")
          /\ pipeOut.kind = "error"
          /\ pipeOut.error = "No workerpool order found. Try again later."
          /\ pipeOut.ids = NoIds
          /\ pipeIds = NoIds
    /\ \A i, j \in 1..Len(pipeCalls) :
          pipeCalls[i].name = pipeCalls[j].name => i = j

\* C26 witness: the order book came back empty after the app order was signed.
C26_Witness ==
    /\ Made("fetchWorkerpoolOrderbook")
    /\ ResOf("fetchWorkerpoolOrderbook") = "empty"
    /\ Made("signApporder")
    /\ pipePc = "done"


(***************************************************************************)
(* Amounts: Number -> String -> parseUnits(.., 6) in postExecute, and      *)
(* formatUsdc on the raw units                                             *)
(***************************************************************************)

\* A non-negative number with at most 6 decimal digits: whole + micro / 10^6.
Amount(whole, micro) == [whole |-> whole, micro |-> micro]

AmountWholes == {0, 1, 12, 999, 1000, 1234, 2047}

AmountMicros ==
    {0, 1, 10, 100, 1000, 10000, 100000, 120000, 230000, 234567, 500000,
     505000, 990000, 995000, 999999}

Amounts == {Amount(w, m) : w \in AmountWholes, m \in AmountMicros}

RECURSIVE StripZeros(_)
StripZeros(s) ==
    IF Len(s) > 0 /\ s[Len(s)] = "0" THEN StripZeros(SubSeq(s, 1, Len(s) - 1)) ELSE s

\* String(n): the shortest decimal text of the number (no exponent in this range)
NumberToString(a) ==
    LET frac == StripZeros(PadStart(NatToStr(a.micro), USDC_DECIMALS, "0"))
    IN  IF frac = <<>> THEN NatToStr(a.whole)
        ELSE NatToStr(a.whole) \o <<".">> \o frac

RECURSIVE StrToNat(_)
StrToNat(s) ==
    IF s = <<>> THEN 0
    ELSE 10 * StrToNat(SubSeq(s, 1, Len(s) - 1)) + HexVal(s[Len(s)])

\* s.indexOf("."), counted from 1; 0 when there is none
IndexOfDot(s) ==
    IF \E i \in 1..Len(s) : s[i] = "."
    THEN CHOOSE i \in 1..Len(s) : s[i] = "." /\ \A k \in 1..(i - 1) : s[k] # "."
    ELSE 0

\* ethers.parseUnits(s, USDC_DECIMALS) for a decimal text with at most 6
\* fraction digits: the fraction is padded with zeros on the right.
ParseUnitsText(s) ==
    LET dot == IndexOfDot(s)
        whole == IF dot = 0 THEN s ELSE SubSeq(s, 1, dot - 1)
        frac == IF dot = 0 THEN <<>> ELSE SubSeq(s, dot + 1, Len(s))
    IN  StrToNat(whole) * (10 ^ USDC_DECIMALS)
          + StrToNat(frac \o Rep("0", USDC_DECIMALS - Len(frac)))

NoConv ==
    [done |-> FALSE, amount |-> Amount(0, 0), text |-> <<>>, raw |-> 0,
     formatted |-> <<>>]

ConvInit == conv = NoConv

\* amounts.map: n = Number(a); parseUnits(String(n), USDC_DECIMALS); and the
\* display of that many raw units by formatUsdc.
Convert ==
    /\ \E a \in Amounts :
          LET raw == ParseUnitsText(NumberToString(a))
          IN  conv' = [done |-> TRUE, amount |-> a, text |-> NumberToString(a),
                       raw |-> raw, formatted |-> formatUsdc(raw)]
    /\ UNCHANGED <<waitVars, execVars, jobVars, treasuryVars, fetchVars, pipeVars>>
    /\ UNCHANGED <<listed, faucetVars>>

NextConv == Convert

\* The number a displayed text denotes, in millionths, its group separators
\* and trailing zeros disregarded.
DisplayedValue(t) == ParseUnitsText(SelectSeq(t, LAMBDA c : c # ","))

\* C32: for every amount a with at most 6 decimal digits, formatting the raw
\* units obtained from a displays the number a (parsing loses nothing, and the
\* display denotes the same value).
C32_FormatInvertsParse ==
    conv.done =>
        /\ conv.raw = conv.amount.whole * (10 ^ USDC_DECIMALS) + conv.amount.micro
        /\ DisplayedValue(conv.formatted) = conv.raw


(***************************************************************************)
(* Faucet: POST /faucet                                                    *)
(*                                                                         *)
(* The handler runs without interruption up to its first await, the call   *)
(* contract.mint(to, amount); handlers suspended there or in tx.wait()     *)
(* interleave with other requests.                                         *)
(***************************************************************************)

RATE_LIMIT_MS == 60 * 1000

\* Time passes in steps of a third of the window.
FaucetStepMs == RATE_LIMIT_MS \div 3

\* Number of time steps and of requests the model takes.
MaxFaucetTicks == 3
MaxFaucetRequests == 2

ADDR_B == <<"0", "x">> \o Rep("b", 40)
ADDR_A_UPPER == ToUpperHex(ADDR_A)
ADDR_A_BLANKS == <<" ">> \o ADDR_A \o <<" ">>
ADDR_A_BARE == Rep("a", 40)

\* req.body.address
FaucetAddresses ==
    {UndefV, Str(<<>>), Str(ADDR_SHORT), Str(ADDR_A), Str(ADDR_A_UPPER),
     Str(ADDR_A_BLANKS), Str(ADDR_A_BARE), Str(ADDR_B)}

\* ethers.isAddress(to): 40 hex digits with or without the 0x prefix (a
\* spelling that mixes upper and lower case digits must also carry a valid
\* checksum; the model sends none).
IsEthAddress(s) ==
    LET digits == IF StartsWith0x(s) THEN SubSeq(s, 3, Len(s)) ELSE s
    IN  /\ Len(digits) = 40
        /\ \A i \in 1..40 : digits[i] \in HexLower \cup HexUpper
        /\ \/ \A i \in 1..40 : digits[i] \in HexLower
           \/ \A i \in 1..40 : digits[i] \notin {"a", "b", "c", "d", "e", "f"}

\* The Map key used as sent, without lower-casing.
FaucetKeyVerbatim(to) == to

\* to.toLowerCase()
FaucetKey(to) == ToLowerCase(to)

\* Every text the handler may use as `to`.
FaucetTexts ==
    {Trim(a.v) : a \in {x \in FaucetAddresses : x.t = "str" /\ IsEthAddress(Trim(x.v))}}

FaucetKeys == FaucetTexts \cup {ToLowerCase(t) : t \in FaucetTexts}

NoFaucet == [status |-> 0, stage |-> "none", address |-> UndefV, at |-> NoTs]

FaucetStart ==
    /\ faucetNow = 0
    /\ addressLastRequest = [k \in FaucetKeys |-> NoTs]
    /\ mintCalls = {}
    /\ pendingMints = EmptyBag
    /\ lastFaucet = NoFaucet
    /\ faucetCount = 0

FaucetInit == faucetConfigured \in BOOLEAN /\ FaucetStart

FaucetIdle == faucetConfigured = TRUE /\ FaucetStart

FaucetAnswer(status, stage, address) ==
    lastFaucet' = [status |-> status, stage |-> stage, address |-> address,
                   at |-> faucetNow]

\* postFaucet up to `await contract.mint(to, amount)`
PostFaucet(address) ==
    IF ~faucetConfigured THEN
        /\ FaucetAnswer(503, "config", address)
        /\ UNCHANGED <<addressLastRequest, mintCalls, pendingMints>>
    ELSE IF address.t # "str" \/ address.v = <<>> THEN
        /\ FaucetAnswer(400, "address", address)
        /\ UNCHANGED <<addressLastRequest, mintCalls, pendingMints>>
    ELSE IF ~IsEthAddress(Trim(address.v)) THEN
        /\ FaucetAnswer(400, "isAddress", address)
        /\ UNCHANGED <<addressLastRequest, mintCalls, pendingMints>>
    ELSE
        LET to == Trim(address.v)
            now == faucetNow
            last == addressLastRequest[FaucetKey(to)]
        IN  IF last # NoTs /\ now - last < RATE_LIMIT_MS THEN
                /\ FaucetAnswer(429, "rate", address)
                /\ UNCHANGED <<addressLastRequest, mintCalls, pendingMints>>
            ELSE
                /\ addressLastRequest' = [addressLastRequest EXCEPT ![FaucetKey(to)] = now]
                /\ mintCalls' = mintCalls \cup {[to |-> to, at |-> now]}
                /\ \/ /\ pendingMints' = pendingMints (+) SetToBag({[address |-> address]})
                      /\ UNCHANGED lastFaucet
                   \/ /\ FaucetAnswer(500, "mint", address)
                      /\ UNCHANGED pendingMints

FaucetRequest ==
    /\ faucetCount < MaxFaucetRequests
    /\ faucetCount' = faucetCount + 1
    /\ \E address \in FaucetAddresses : PostFaucet(address)
    /\ UNCHANGED <<faucetConfigured, faucetNow>>
    /\ UNCHANGED <<waitVars, execVars, jobVars, treasuryVars, fetchVars, pipeVars>>
    /\ UNCHANGED <<conv, listed>>

\* `await tx.wait()` of a suspended handler: the receipt, or a failure.
FaucetMined ==
    /\ \E m \in BagToSet(pendingMints) : \E ok \in BOOLEAN :
          /\ pendingMints' = pendingMints (-) SetToBag({m})
          /\ IF ok THEN FaucetAnswer(200, "receipt", m.address)
             ELSE FaucetAnswer(500, "wait", m.address)
    /\ UNCHANGED <<faucetConfigured, faucetNow, addressLastRequest, mintCalls, faucetCount>>
    /\ UNCHANGED <<waitVars, execVars, jobVars, treasuryVars, fetchVars, pipeVars>>
    /\ UNCHANGED <<conv, listed>>

FaucetTick ==
    /\ faucetNow < MaxFaucetTicks * FaucetStepMs
    /\ faucetNow' = faucetNow + FaucetStepMs
    /\ UNCHANGED <<faucetConfigured, addressLastRequest, mintCalls, pendingMints,
                   lastFaucet, faucetCount>>
    /\ UNCHANGED <<waitVars, execVars, jobVars, treasuryVars, fetchVars, pipeVars>>
    /\ UNCHANGED <<conv, listed>>

NextFaucet ==
    \/ FaucetRequest
    \/ FaucetMined
    \/ FaucetTick

\* ---- claims about the faucet ----

\* Two spellings name the same address when they are equal up to letter case.
SameAddress(s, t) == ToLowerCase(s) = ToLowerCase(t)

\* C35: two mint calls for the same address (compared without regard to
\* letter case) are at least 60 seconds apart, whatever the interleaving; a
\* request answered 429 made no mint call and follows, by less than 60 seconds,
\* an accepted request for its address; and the window opened by an accepted
\* request stays consumed when its mint fails.
C35_OneMintPerWindow ==
    /\ [](\A c1, c2 \in mintCalls :
            (c1 # c2 /\ SameAddress(c1.to, c2.to))
               => (c1.at - c2.at >= RATE_LIMIT_MS \/ c2.at - c1.at >= RATE_LIMIT_MS))
    /\ [](\A c \in mintCalls :
            \E k \in FaucetKeys : SameAddress(k, c.to) /\ addressLastRequest[k] >= c.at)
    /\ [][\A address \in FaucetAddresses :
            (PostFaucet(address) /\ faucetConfigured
             /\ address.t = "str" /\ IsEthAddress(Trim(address.v))) =>
               LET recent == \E c \in mintCalls :
                                /\ SameAddress(c.to, Trim(address.v))
                                /\ faucetNow - c.at < RATE_LIMIT_MS
               IN  IF recent
                   THEN /\ lastFaucet'.status = 429
                        /\ mintCalls' = mintCalls
                        /\ pendingMints' = pendingMints
                        /\ addressLastRequest' = addressLastRequest
                   ELSE /\ mintCalls' = mintCalls \cup {[to |-> Trim(address.v),
                                                         at |-> faucetNow]}
                        /\ \E k \in FaucetKeys :
                              /\ SameAddress(k, Trim(address.v))
                              /\ addressLastRequest'[k] = faucetNow]_vars

\* C35 witness: while the mint for an address was still in flight, a request
\* for the same address in another spelling was answered 429.
C35_Witness ==
    /\ lastFaucet.status = 429
    /\ pendingMints # EmptyBag
    /\ \E c \in mintCalls :
          /\ c.to # Trim(lastFaucet.address.v)
          /\ SameAddress(c.to, Trim(lastFaucet.address.v))


(***************************************************************************)
(* Specifications                                                          *)
(***************************************************************************)

\* The machines a specification does not run stay configured and idle.
ExecIdle ==
    /\ ExecInit
    /\ execConfigured
    /\ executorAuthorized

JobsIdle ==
    /\ JobsInit
    /\ dbConfigured

TreasuryIdle ==
    /\ treasuryConfigured = TRUE
    /\ chainBalance = 1239999
    /\ treasuryRows = {}
    /\ treasuryReads = EmptyBag
    /\ treasuryCount = 0
    /\ lastRead = NoRead
    /\ lastPlain = NoPlain

\* Amount conversion, listing and the faucet before any call.
MoreIdle == ConvInit /\ ListInit /\ FaucetIdle

Init ==
    WaitInit /\ ExecInit /\ JobsInit /\ TreasuryInit /\ FetchInit /\ PipeInit
    /\ MoreIdle

Next ==
    \/ NextWait
    \/ NextExec
    \/ NextJobs
    \/ NextJobFields
    \/ NextPatchOrder
    \/ NextTreasury
    \/ NextFetch
    \/ NextPipe
    \/ NextConv
    \/ NextList
    \/ NextFaucet

Spec == Init /\ [][Next]_vars

InitWait ==
    WaitInit /\ ExecIdle /\ JobsIdle /\ TreasuryIdle /\ FetchInit /\ PipeInit
    /\ MoreIdle

SpecWait == InitWait /\ [][NextWait]_vars

\* The event loop runs a due timer callback, and time passes.
FairSpecWait == SpecWait /\ WF_vars(TimerFire) /\ WF_vars(WaitTick)

InitExec ==
    WaitInit /\ ExecInit /\ JobsIdle /\ TreasuryIdle /\ FetchInit /\ PipeInit
    /\ MoreIdle

SpecExec == InitExec /\ [][NextExec]_vars

InitJobs ==
    WaitInit /\ ExecIdle /\ JobsInit /\ TreasuryIdle /\ FetchInit /\ PipeInit
    /\ MoreIdle

SpecJobs == InitJobs /\ [][NextJobs]_vars

SpecJobFields == InitJobs /\ [][NextJobFields]_vars

SpecPatchOrder == InitJobs /\ [][NextPatchOrder]_vars

InitTreasury ==
    WaitInit /\ ExecIdle /\ JobsInit /\ TreasuryInit /\ FetchInit /\ PipeInit
    /\ MoreIdle

SpecTreasury == InitTreasury /\ [][NextTreasury]_vars

InitFetch ==
    WaitInit /\ ExecIdle /\ JobsIdle /\ TreasuryIdle /\ FetchInit /\ PipeInit
    /\ MoreIdle

SpecFetch == InitFetch /\ [][NextFetch]_vars

InitPipe ==
    WaitInit /\ ExecIdle /\ JobsIdle /\ TreasuryIdle /\ FetchInit /\ PipeInit
    /\ MoreIdle

SpecPipe == InitPipe /\ [][NextPipe]_vars

SpecConv == InitPipe /\ [][NextConv]_vars

SpecList == InitJobs /\ [][NextList]_vars

InitFaucet ==
    WaitInit /\ ExecIdle /\ JobsIdle /\ TreasuryIdle /\ FetchInit /\ PipeInit
    /\ ConvInit /\ ListInit /\ FaucetInit

SpecFaucet == InitFaucet /\ [][NextFaucet]_vars

====
